---- MODULE Spec2Model ----
(***************************************************************************)
(* A model of lopper.py: the property decoder (Lopper.decode_property_     *)
(* value), the flattened device tree as libfdt exposes it (nodes in        *)
(* pre-order, addressed by offsets that a deletion invalidates), the       *)
(* transform engine (SystemDeviceTree.transform), the node filter          *)
(* (Lopper.filter_node) and the accessibility resolver                     *)
(* (SystemDeviceTree.inaccessible_nodes).                                  *)
(***************************************************************************)
EXTENDS Integers, Sequences, FiniteSets, TLC

VARIABLES
    tree,          \* SystemDeviceTree.FDT: the nodes in pre-order
    tree0,         \* history: the tree as it was loaded (setup)
    modules,       \* SystemDeviceTree.modules
    node_access,   \* SystemDeviceTree.node_access
    ref_calls,     \* history: the node_name of each node_ref_inc call
    xforms,        \* the transform nodes of SystemDeviceTree.xforms, in order
    xi,            \* index of the next transform node
    pc,            \* position of the run
    verbose,       \* the verbosity level
    target_domain, \* the -t/--target argument ("" when absent)
    calls,         \* history: the process_domain invocations
    propname,      \* inaccessible_nodes: the property name argument
    stdout,        \* what transform, dt_compile, node_ref_inc, callees printed
    applied,       \* history: the apply_domain_spec calls, [tgt_domain, xi]
    node_prefix,   \* filter_node: the prefix argument
    action,        \* filter_node: the action argument
    test_cmd,      \* filter_node: what the test expression did, per node id
    node_list,     \* filter_node: the subnode names still to visit
    evals,         \* history: the evaluations filter_node made
    safe_dict,     \* filter_node: the names bound in the exec context
    property,      \* decode_property_value: the payload
    type,          \* decode_property_value: the mode
    val,           \* decode_property_value: the returned value
    values,        \* encode_byte_array: the argument
    barray,        \* encode_byte_array: the returned bytes
    sdt,           \* dt_compile: the path of the source argument
    includes,      \* dt_compile: the include directories argument
    which,         \* dt_compile: the tools found (environment or PATH)
    files,         \* dt_compile: the paths that exist on disk
    runs,          \* history: the subprocess.run calls dt_compile made
    result,        \* dt_compile: the local variable result
    output_dtb,    \* dt_compile: the returned name
    cur_node,      \* nodes_with_property: the local variable node
    ret_nodes,     \* nodes_with_property: the list it builds and returns
    argv,          \* the command line, as getopt splits it
    output,        \* the global output
    force,         \* the global force
    wrote,         \* history: the existing-or-not paths opened for writing
    delprops,      \* history: the FDT.delprop calls of property_remove
    stale_reads    \* history: reads at an offset taken before a delprop

vars == <<tree, tree0, modules, node_access, ref_calls, xforms, xi, pc, verbose,
          target_domain, calls, propname, stdout, applied, node_prefix,
          action, test_cmd, node_list, evals, safe_dict, property, type, val,
          values, barray, sdt, includes, which, files, runs, result,
          output_dtb, cur_node, ret_nodes, argv, output, force, wrote,
          delprops, stale_reads>>

sdtVars == <<tree, tree0, modules, node_access, ref_calls, xforms, xi, verbose,
             target_domain, calls, propname, stdout, applied>>
filterVars == <<node_prefix, action, test_cmd, node_list, evals, safe_dict>>
decodeVars == <<property, type, val, values, barray>>
compileVars == <<sdt, includes, which, files, runs, result, output_dtb>>
findVars == <<cur_node, ret_nodes>>
mainVars == <<argv, output, force, wrote>>
scanVars == <<delprops, stale_reads>>

(***************************************************************************)
(* Bounds                                                                  *)
(***************************************************************************)
\* the longest payload handed to the decoder
MaxPayload == 8

\* the longest list of ints handed to the encoder
MaxValues == 2

\* the most nodes a tree has below its root
MaxNodes == 3

\* the most transform nodes of a run that loads modules and applies domains
MaxXforms == 3

\* the most node_ref_inc calls made during a run
MaxRefs == 3

\* the highest verbosity level (the number of -v options)
MaxVerbose == 1

\* the most include directories passed to dt_compile
MaxIncludes == 1

\* the byte values payloads are built from: NUL, two 7-bit characters, and
\* 0xff (never valid in UTF-8, and the top bit of a big-endian word)
ByteVals == {0, 1, 97, 255}

(***************************************************************************)
(* Python values                                                           *)
(*                                                                         *)
(* An int is kept as its big-endian 16-bit limbs without leading zero      *)
(* limbs (0 is the empty sequence), so that 32 and 64 bit unsigned values  *)
(* are exact.  A str is the sequence of its characters' codes.             *)
(***************************************************************************)
RECURSIVE StripZeros(_)
StripZeros(limbs) ==
    IF limbs = <<>> THEN <<>>
    ELSE IF Head(limbs) = 0 THEN StripZeros(Tail(limbs)) ELSE limbs

PyInt(limbs) == [k |-> "int", v |-> StripZeros(limbs)]
PyStr(chars) == [k |-> "str", v |-> chars]
PyList(items) == [k |-> "list", v |-> items]
PyZero == PyInt(<<>>)
PyEmptyStr == PyStr(<<>>)
PyNone == [k |-> "None"]

\* sys.argv[1:] as getopt returns it: the count of -v, whether -f and -d
\* were given, the -t and -o arguments ("" when absent), and the positional
\* arguments
Argv(v, f, d, t, o, args) ==
    [v |-> v, f |-> f, d |-> d, t |-> t, o |-> o, args |-> args]
NoArgv == Argv(0, FALSE, FALSE, <<>>, <<>>, <<>>)
\* the int -1 (-FDT_ERR_NOTFOUND) that Fdt.getprop returns for a missing
\* property under QUIET_NOTFOUND; payloads are sequences of bytes, 0..255
NotFoundCode == <<-1>>

\* "not val and val != 0"
NotDecoded(v) ==
    /\ \/ (v.k = "int" /\ v.v = <<>>)
       \/ (v.k = "str" /\ v.v = <<>>)
       \/ (v.k = "list" /\ v.v = <<>>)
    /\ v # PyZero

(***************************************************************************)
(* libfdt.Property                                                         *)
(***************************************************************************)
IsBytes(p) == p # NotFoundCode

\* struct.unpack('>I' / '>Q', payload): the payload's length must be exact
RECURSIVE Limbs(_)
Limbs(bs) ==
    IF Len(bs) < 2 THEN <<>>
    ELSE <<bs[1] * 256 + bs[2]>> \o Limbs(SubSeq(bs, 3, Len(bs)))

\* bytes.decode('utf-8'), exact on ByteVals: 7-bit bytes decode to
\* themselves and 0xff is invalid wherever it stands
Utf8Ok(bs) == \A i \in 1..Len(bs) : bs[i] < 128

RECURSIVE SplitNul(_, _)
SplitNul(bs, cur) ==
    IF bs = <<>> THEN <<cur>>
    ELSE IF Head(bs) = 0 THEN <<cur>> \o SplitNul(Tail(bs), <<>>)
    ELSE SplitNul(Tail(bs), Append(cur, Head(bs)))

\* each of the four attempts: [ok |-> it did not raise, v |-> its value]
Raised == [ok |-> FALSE, v |-> PyEmptyStr]
as_uint32(p) ==
    IF IsBytes(p) /\ Len(p) = 4 THEN [ok |-> TRUE, v |-> PyInt(Limbs(p))]
    ELSE Raised
as_uint64(p) ==
    IF IsBytes(p) /\ Len(p) = 8 THEN [ok |-> TRUE, v |-> PyInt(Limbs(p))]
    ELSE Raised
as_str(p) ==
    IF /\ IsBytes(p)
       /\ Len(p) > 0
       /\ p[Len(p)] = 0
       /\ \A i \in 1..(Len(p) - 1) : p[i] # 0
       /\ Utf8Ok(p)
    THEN [ok |-> TRUE, v |-> PyStr(SubSeq(p, 1, Len(p) - 1))]
    ELSE Raised
\* property[:-1].decode('utf-8').split('\x00'); beside it the split of the
\* whole payload, terminator included
as_multi_str_keeps_terminator(p) ==
    IF IsBytes(p) /\ Utf8Ok(p)
    THEN [ok |-> TRUE,
          v |-> PyList([i \in 1..Len(SplitNul(p, <<>>))
                          |-> PyStr(SplitNul(p, <<>>)[i])])]
    ELSE Raised

as_multi_str(p) ==
    IF IsBytes(p) /\ Utf8Ok(SubSeq(p, 1, Len(p) - 1))
    THEN [ok |-> TRUE,
          v |-> PyList([i \in 1..Len(SplitNul(SubSeq(p, 1, Len(p) - 1), <<>>))
                          |-> PyStr(SplitNul(SubSeq(p, 1, Len(p) - 1), <<>>)[i])])]
    ELSE Raised

\* one "try: val = ... except: pass" of the simple chain
Attempt(v, r) == IF r.ok THEN r.v ELSE v

\* Lopper.decode_property_value, type "simple": decode_simple, and beside
\* it the chain as it would run with "if not val:" for its tests, where an
\* int 0 goes on to the next attempt
decode_simple_zero_falls_through(p) ==
    LET v1 == Attempt(PyEmptyStr, as_uint32(p))
        v2 == IF NotDecoded(v1) \/ v1 = PyZero
              THEN Attempt(v1, as_uint64(p)) ELSE v1
        v3 == IF NotDecoded(v2) \/ v2 = PyZero
              THEN Attempt(v2, as_str(p)) ELSE v2
        v4 == IF NotDecoded(v3) \/ v3 = PyZero
              THEN Attempt(v3, as_multi_str(p)) ELSE v3
    IN v4

decode_simple(p) ==
    LET v1 == Attempt(PyEmptyStr, as_uint32(p))
        v2 == IF NotDecoded(v1) THEN Attempt(v1, as_uint64(p)) ELSE v1
        v3 == IF NotDecoded(v2) THEN Attempt(v2, as_str(p)) ELSE v2
        v4 == IF NotDecoded(v3) THEN Attempt(v3, as_multi_str(p)) ELSE v3
    IN v4

\* lines 446-466: one number per whole 4-byte cell, as an int or, for the
\* format "hex", as the string hex() makes of it; len() of what getprop
\* returns for a missing property raises TypeError
\* hex(): "0x" and the digits 0-9a-f without leading zeros, as character
\* codes
HexDigit(d) == IF d < 10 THEN 48 + d ELSE 87 + d
Hex16(n) ==
    <<HexDigit(n \div 4096), HexDigit((n \div 256) % 16),
      HexDigit((n \div 16) % 16), HexDigit(n % 16)>>
RECURSIVE StripHexZeros(_)
StripHexZeros(ds) ==
    IF Len(ds) > 1 /\ Head(ds) = 48 THEN StripHexZeros(Tail(ds)) ELSE ds
PyHex(limbs) ==
    PyStr(<<48, 120>>
          \o StripHexZeros(IF limbs = <<>> THEN <<48>>
                           ELSE Hex16(limbs[1]) \o Hex16(limbs[2])))
PyTypeError == [k |-> "raise", v |-> <<>>]

\* the cells of the payload; beside the loop of lines 458-466 one that
\* would also take the bytes after the last whole cell
CompoundCell(p, i, format) ==
    IF format = "hex" THEN PyHex(Limbs(SubSeq(p, 4 * i - 3, 4 * i)))
    ELSE PyInt(Limbs(SubSeq(p, 4 * i - 3, 4 * i)))

decode_compound_keeps_partial_cell(p, format) ==
    IF ~IsBytes(p) THEN PyTypeError
    ELSE PyList([i \in 1..((Len(p) + 3) \div 4) |->
                    CompoundCell(p \o <<0, 0, 0>>, i, format)])

decode_compound(p, format) ==
    IF ~IsBytes(p) THEN PyTypeError
    ELSE PyList([i \in 1..(Len(p) \div 4) |-> CompoundCell(p, i, format)])

DecodeTypes == {"simple", "compound", "compound:hex"}

decode_property_value(p, t) ==
    CASE t = "simple" -> decode_simple(p)
      [] t = "compound:hex" -> decode_compound(p, "hex")
      [] OTHER -> decode_compound(p, "dec")

\* Lopper.get_prop: Fdt.getprop with QUIET_NOTFOUND, then the decoder
getprop(props, name) ==
    IF \E i \in 1..Len(props) : props[i].name = name
    THEN props[CHOOSE i \in 1..Len(props) : props[i].name = name].val
    ELSE NotFoundCode

get_prop(props, name) == decode_property_value(getprop(props, name), "simple")

(***************************************************************************)
(* The flattened tree (libfdt.Fdt)                                         *)
(*                                                                         *)
(* tree is the structure block: the nodes in pre-order, each with its      *)
(* depth, its name (a sequence of characters), its properties in order,    *)
(* and an id that no operation of the program reads (it names the node in  *)
(* the properties below).  The offset of a node is its position, counted   *)
(* from 0; the root is at offset 0.                                        *)
(***************************************************************************)
Range(s) == {s[i] : i \in 1..Len(s)}

Offsets(t) == 0..(Len(t) - 1)
NodeAt(t, o) == t[o + 1]
Ids(t) == {t[i].id : i \in 1..Len(t)}
OffsetOf(t, id) == CHOOSE o \in Offsets(t) : NodeAt(t, o).id = id

\* the offset of the last node of the subtree at o
SubtreeEnd(t, o) ==
    CHOOSE e \in o..(Len(t) - 1) :
        /\ \A j \in (o + 1)..e : NodeAt(t, j).depth > NodeAt(t, o).depth
        /\ e = Len(t) - 1 \/ NodeAt(t, e + 1).depth <= NodeAt(t, o).depth

SubtreeIds(t, o) == {NodeAt(t, j).id : j \in o..SubtreeEnd(t, o)}

\* Fdt.first_subnode / Fdt.next_subnode: the children of o, in order
RECURSIVE SelectOffsets(_, _, _, _)
SelectOffsets(t, from, to, d) ==
    IF from > to THEN <<>>
    ELSE (IF NodeAt(t, from).depth = d THEN <<from>> ELSE <<>>)
         \o SelectOffsets(t, from + 1, to, d)

Subnodes(t, o) ==
    SelectOffsets(t, o + 1, SubtreeEnd(t, o), NodeAt(t, o).depth + 1)

\* Fdt.del_node: the node and its whole subtree leave the structure block
del_node(t, o) == SubSeq(t, 1, o) \o SubSeq(t, SubtreeEnd(t, o) + 2, Len(t))

\* Fdt.delprop, for a property the node has
delprop(t, o, name) ==
    [t EXCEPT ![o + 1].props = SelectSeq(@, LAMBDA p : p.name # name)]

HasProp(n, name) == \E i \in 1..Len(n.props) : n.props[i].name = name

\* fdt_nodename_eq_: the name equals the path component, or the component
\* has no unit address and the name is the component followed by '@'
NodenameEq(name, s) ==
    /\ Len(name) >= Len(s)
    /\ SubSeq(name, 1, Len(s)) = s
    /\ \/ Len(name) = Len(s)
       \/ ("@" \notin Range(s) /\ name[Len(s) + 1] = "@")

\* fdt_subnode_offset_namelen: the first child of o that matches, or -1
SubnodeOffset(t, o, s) ==
    LET m == SelectSeq(Subnodes(t, o), LAMBDA c : NodenameEq(NodeAt(t, c).name, s))
    IN IF m = <<>> THEN -1 ELSE m[1]

\* the components of a path: split on '/', empty components dropped
RECURSIVE Components(_, _)
Components(path, cur) ==
    IF path = <<>> THEN (IF cur = <<>> THEN <<>> ELSE <<cur>>)
    ELSE IF Head(path) = "/"
         THEN (IF cur = <<>> THEN <<>> ELSE <<cur>>) \o Components(Tail(path), <<>>)
         ELSE Components(Tail(path), Append(cur, Head(path)))

RECURSIVE Descend(_, _, _)
Descend(t, o, comps) ==
    IF comps = <<>> \/ o < 0 THEN o
    ELSE Descend(t, SubnodeOffset(t, o, Head(comps)), Tail(comps))

\* Fdt.path_offset: the offset of the node at the path, or -1 where libfdt
\* raises (no such node; a path that does not start with '/' names an
\* alias, and the trees here have none)
path_offset(t, path) ==
    IF path = <<>> \/ Head(path) # "/" THEN -1
    ELSE Descend(t, 0, Components(path, <<>>))

\* Lopper.node_find: 0 where path_offset raises
node_find(t, path) ==
    IF path_offset(t, path) < 0 THEN 0 ELSE path_offset(t, path)

\* Lopper.get_subnodes: the names of the children, for a path that
\* resolves; beside it the list a walk of the whole subtree would give
get_subnodes_all_descendants(t, path) ==
    LET o == path_offset(t, path)
    IN [i \in 1..(SubtreeEnd(t, o) - o) |-> NodeAt(t, o + i).name]

get_subnodes(t, path) ==
    LET o == path_offset(t, path)
    IN [i \in 1..Len(Subnodes(t, o)) |-> NodeAt(t, Subnodes(t, o)[i]).name]

\* the path of the node at o, as Lopper.node_abspath builds it
RECURSIVE AbsPath(_, _)
AbsPath(t, o) ==
    IF o = 0 THEN <<>>
    ELSE LET par == CHOOSE q \in 0..(o - 1) :
                        /\ NodeAt(t, q).depth = NodeAt(t, o).depth - 1
                        /\ SubtreeEnd(t, q) >= o
         IN AbsPath(t, par) \o <<"/">> \o NodeAt(t, o).name

ParentId(t, o) ==
    NodeAt(t, CHOOSE q \in 0..(o - 1) :
                  /\ NodeAt(t, q).depth = NodeAt(t, o).depth - 1
                  /\ SubtreeEnd(t, q) >= o).id

(***************************************************************************)
(* Strings of the program: sequences of characters                         *)
(***************************************************************************)
Compatible == <<"c", "o", "m", "p", "a", "t", "i", "b", "l", "e">>
Phandle == <<"p", "h", "a", "n", "d", "l", "e">>
NoAccess == <<"n", "o", "-", "a", "c", "c", "e", "s", "s">>
Inaccessible == <<"i", "n", "a", "c", "c", "e", "s", "s", "i", "b", "l", "e">>

\* str.split(sep)
RECURSIVE Split(_, _, _)
Split(s, sep, cur) ==
    IF s = <<>> THEN <<cur>>
    ELSE IF Head(s) = sep THEN <<cur>> \o Split(Tail(s), sep, <<>>)
    ELSE Split(Tail(s), sep, Append(cur, Head(s)))

\* str.replace(c, '')
Without(s, c) == SelectSeq(s, LAMBDA x : x # c)

\* the truth value of a decoded property
Truthy(v) == v.v # <<>>

(***************************************************************************)
(* Domain modules (external): what is_compat answers                       *)
(***************************************************************************)
ModuleNames == {"m1", "m2"}

is_compat(m, compat) ==
    /\ compat.k = "str"
    /\ \/ m = "m1" /\ compat.v = <<97>>
       \/ m = "m2" /\ compat.v \in {<<97>>, <<98>>}

(***************************************************************************)
(* SystemDeviceTree.apply_domain_spec                                      *)
(*                                                                         *)
(* The result: the module whose process_domain is called ("" for none)     *)
(* and whether the run exits (sys.exit(1)).                                *)
(***************************************************************************)
FirstCompat(mods, compat) ==
    LET m == SelectSeq(mods, LAMBDA x : is_compat(x, compat))
    IN IF m = <<>> THEN "" ELSE m[1]

\* the module the loop of lines 527-530 stops at is the first that accepts
\* the string; LastCompat is the one a loop without the return would end on
LastCompat(mods, compat) ==
    LET m == SelectSeq(mods, LAMBDA x : is_compat(x, compat))
    IN IF m = <<>> THEN "" ELSE m[Len(m)]

DomainModule(mods, compat) == FirstCompat(mods, compat)

apply_domain_spec(t, mods, v, tgt_domain) ==
    LET tgt_node == node_find(t, tgt_domain)
        domain_compat == get_prop(NodeAt(t, tgt_node).props, Compatible)
    IN IF tgt_node # 0 /\ Truthy(domain_compat)
       THEN IF mods # <<>>
            THEN [module |-> DomainModule(mods, domain_compat), exit |-> FALSE]
            ELSE [module |-> "", exit |-> v > 0]
       ELSE [module |-> "", exit |-> FALSE]

\* print(...) when the condition holds
Say(cond, msg) == IF cond THEN <<msg>> ELSE <<>>

\* what apply_domain_spec prints (lines 517-534)
ApplyPrints(t, mods, v, tgt_domain) ==
    LET tgt_node == node_find(t, tgt_domain)
        domain_compat == get_prop(NodeAt(t, tgt_node).props, Compatible)
    IN IF tgt_node = 0 THEN <<>>
       ELSE Say(v > 0, "[INFO]: domain node found")
            \o (IF Truthy(domain_compat)
                THEN Say(v > 0 /\ mods = <<>>,
                         "[INFO]: no modules available for domain processing .. skipping")
                ELSE <<"[ERROR]: target domain has no compatible string, cannot apply a specification">>)

\* m.process_domain( tgt_domain, self, self.verbose ), as the run records it
Invoke(log, m, tgt_domain, v) ==
    IF m = "" THEN log
    ELSE Append(log, [module |-> m, domain |-> tgt_domain, verbose |-> v])

(***************************************************************************)
(* Transform nodes                                                         *)
(*                                                                         *)
(* One record per node of the transform trees that has a compatible        *)
(* property, in the order transform() visits them: kind is the suffix its  *)
(* compatible value matches, and the other fields are the properties the   *)
(* engine reads from it.  import is what importing the file named by load  *)
(* does: "ok", "enoent" (Path.resolve raises FileNotFoundError) or "raise" *)
(* (__import__ raises).                                                    *)
(***************************************************************************)
NoFrag ==
    [kind |-> "other", has_load |-> FALSE, load |-> <<>>, has_module |-> FALSE,
     import |-> "ok", mod |-> "", has_domain |-> FALSE, domain |-> <<>>,
     has_modify |-> FALSE, modify |-> <<>>]

LoadFrag(has_load, load, has_module, import, mod) ==
    [NoFrag EXCEPT !.kind = "load,module", !.has_load = has_load, !.load = load,
                   !.has_module = has_module, !.import = import, !.mod = mod]

DomainFrag(has_domain, domain) ==
    [NoFrag EXCEPT !.kind = "xform,domain", !.has_domain = has_domain,
                   !.domain = domain]

ModifyFrag(has_modify, modify) ==
    [NoFrag EXCEPT !.kind = "xform,modify", !.has_modify = has_modify,
                   !.modify = modify]

(***************************************************************************)
(* SystemDeviceTree.property_remove                                        *)
(*                                                                         *)
(* The walk starts at node_find(node_prefix) and, when recursive, goes on  *)
(* through next_node until the depth falls below the start's: the subtree  *)
(* of the start.  In a node the scan appends each property name, fetches   *)
(* the next offset, and calls delprop as soon as propname is among the     *)
(* names seen.  When the deleted property was the last one the next offset *)
(* is already negative and the scan ends.  Otherwise the next offset was   *)
(* taken before the deletion moved the structure block: what lies at it    *)
(* afterwards depends on the sizes of the payloads.  Either it is no       *)
(* property (get_property_by_offset raises, the scan ends) or it reads as  *)
(* one, and then delprop is called again for a name the node no longer     *)
(* has and raises out of property_remove.  The result is the set of        *)
(* outcomes: [tree, raised, delprops, stale], with the delprop calls made  *)
(* (the node and whether it had the property) and the number of reads made *)
(* at an offset taken before a deletion.                                   *)
(***************************************************************************)
DelpropCall(n, pname) == [node |-> n.id, has |-> HasProp(n, pname)]

RECURSIVE RemoveScan(_, _, _, _, _)
RemoveScan(t, nodes, pname, dels, stale) ==
    IF nodes = <<>>
    THEN {[tree |-> t, raised |-> FALSE, delprops |-> dels, stale |-> stale]}
    ELSE LET o == Head(nodes)
             n == NodeAt(t, o)
             after == delprop(t, o, pname)
             first == Append(dels, DelpropCall(n, pname))
         IN IF ~HasProp(n, pname)
            THEN RemoveScan(t, Tail(nodes), pname, dels, stale)
            ELSE IF n.props[Len(n.props)].name = pname
            THEN RemoveScan(after, Tail(nodes), pname, first, stale)
            ELSE {[tree |-> after, raised |-> TRUE,
                   delprops |-> Append(first,
                                       DelpropCall(NodeAt(after, o), pname)),
                   stale |-> stale + 1]}
                 \cup RemoveScan(after, Tail(nodes), pname, first, stale + 1)

RemoveWalk(t, nodes, pname) == RemoveScan(t, nodes, pname, <<>>, 0)

WalkFrom(t, node, last) == [i \in 1..(last - node + 1) |-> node + i - 1]

\* SystemDeviceTree.property_remove: the walk ends when next_node leaves
\* the subtree of the node (depth < 0); beside it a walk that would go on
\* to the end of the tree
property_remove_past_subtree(t, prefix, pname, recursive) ==
    LET node == node_find(t, prefix)
    IN RemoveWalk(t, WalkFrom(t, node, Len(t) - 1), pname)

property_remove(t, prefix, pname, recursive) ==
    LET node == node_find(t, prefix)
    IN RemoveWalk(t, IF recursive THEN WalkFrom(t, node, SubtreeEnd(t, node))
                     ELSE <<node>>, pname)

\* SystemDeviceTree.node_remove: del_node takes the node with its subtree;
\* beside it a removal of the node alone
node_remove_keeps_subtree(t, o) == SubSeq(t, 1, o) \o SubSeq(t, o + 2, Len(t))

node_remove(t, o) == del_node(t, o)

\* Fdt.set_name
set_name(t, o, name) == [t EXCEPT ![o + 1].name = name]

\* FDT_TAGALIGN(len + 1) / 4: the words a name takes in the structure block
NameWords(name) == (Len(name) + 4) \div 4

(***************************************************************************)
(* SystemDeviceTree.transform                                              *)
(***************************************************************************)
Frag == xforms[xi]
AtFrag(kind) == pc = "xforms" /\ xi <= Len(xforms) /\ Frag.kind = kind

\* lines 574-578: what is printed for every transform node
NodePrints(v) ==
    Say(v > 0, "[INFO]: ------> processing transform")
    \o Say(v > 2, "[DEBUG]: prop: val:")
    \o Say(v > 2, "[DEBUG]: node name:")

\* lines 559-561: the apply_domain_spec call made for the starting domain,
\* recorded with position 0; beside it a start that would apply it twice
StartingDomainTwice(tgt_domain) ==
    IF tgt_domain # <<>>
    THEN <<[tgt_domain |-> tgt_domain, xi |-> 0],
           [tgt_domain |-> tgt_domain, xi |-> 0]>>
    ELSE <<>>

StartingDomain(tgt_domain) ==
    IF tgt_domain # <<>> THEN <<[tgt_domain |-> tgt_domain, xi |-> 0]>>
    ELSE <<>>

\* lines 555-561: the starting domain, if one was given
TransformStart ==
    /\ pc = "transform"
    /\ LET r == IF target_domain # <<>>
                THEN apply_domain_spec(tree, modules, verbose, target_domain)
                ELSE [module |-> "", exit |-> FALSE]
       IN /\ calls' = Invoke(calls, r.module, target_domain, verbose)
          /\ pc' = IF r.exit THEN "exit" ELSE "xforms"
    /\ applied' = applied \o StartingDomain(target_domain)
    /\ stdout' = stdout
                  \o Say(verbose > 0, "[NOTE]: transform input(s) available")
                  \o (IF target_domain # <<>>
                      THEN ApplyPrints(tree, modules, verbose, target_domain)
                      ELSE <<>>)
    /\ UNCHANGED <<tree, tree0, modules, node_access, ref_calls, xforms, xi, verbose,
                   target_domain, propname, filterVars, decodeVars, compileVars, findVars, mainVars,
                   scanVars>>

\* self.modules.append( imported_module ); beside it an insert at the front
RegisterFirst(mods, m) == <<m>> \o mods

Register(mods, m) == Append(mods, m)

\* lines 581-602
LoadModule ==
    /\ AtFrag("load,module")
    /\ LET prop == IF Frag.has_load /\ Frag.has_module THEN Frag.load ELSE <<>>
       IN /\ IF prop = <<>>
             THEN /\ xi' = xi + 1
                  /\ UNCHANGED <<pc, modules>>
             ELSE CASE Frag.import = "enoent" ->
                         /\ pc' = "exit"
                         /\ UNCHANGED <<xi, modules>>
                    [] Frag.import = "raise" ->
                         /\ pc' = "raise"
                         /\ UNCHANGED <<xi, modules>>
                    [] OTHER ->
                         /\ modules' = Register(modules, Frag.mod)
                         /\ xi' = xi + 1
                         /\ UNCHANGED pc
          /\ stdout' = stdout
                \o NodePrints(verbose)
                \o Say(verbose > 0,
                       "--------------- [INFO]: node is a load module transform")
                \o Say(verbose > 0 /\ prop # <<>>, "[INFO]: loading module")
                \o Say(prop # <<>> /\ Frag.import = "enoent",
                       "[ERROR]: module file not found")
    /\ UNCHANGED <<tree, tree0, node_access, ref_calls, xforms, verbose, target_domain,
                   calls, propname, applied, filterVars, decodeVars, compileVars, findVars, mainVars,
                   scanVars>>

\* lines 604-616
XformDomain ==
    /\ AtFrag("xform,domain")
    /\ LET prop == IF Frag.has_domain THEN Frag.domain ELSE <<>>
           r == IF prop # <<>>
                THEN apply_domain_spec(tree, modules, verbose, prop)
                ELSE [module |-> "", exit |-> FALSE]
       IN /\ calls' = Invoke(calls, r.module, prop, verbose)
          /\ pc' = IF r.exit THEN "exit" ELSE pc
          /\ xi' = IF r.exit THEN xi ELSE xi + 1
          /\ applied' = applied
                \o (IF prop # <<>> THEN <<[tgt_domain |-> prop, xi |-> xi]>>
                    ELSE <<>>)
          /\ stdout' = stdout
                \o NodePrints(verbose)
                \o Say(verbose > 0,
                       "[INFO]: node is a compatible domain transform")
                \o Say(verbose > 0 /\ prop # <<>>,
                       "[INFO]: domain property found")
                \o (IF prop # <<>>
                    THEN ApplyPrints(tree, modules, verbose, prop) ELSE <<>>)
    /\ UNCHANGED <<tree, tree0, modules, node_access, ref_calls, xforms, verbose,
                   target_domain, propname, filterVars, decodeVars, compileVars, findVars, mainVars,
                   scanVars>>

\* lines 618-637
ModifyProp == IF Frag.has_modify THEN Frag.modify ELSE <<>>
modify_expr == Split(ModifyProp, ":", <<>>)
AtModify(has_property, has_replacement) ==
    /\ AtFrag("xform,modify")
    /\ ModifyProp # <<>>
    /\ Len(modify_expr) >= 3
    /\ (modify_expr[2] # <<>>) = has_property
    /\ (modify_expr[3] # <<>>) = has_replacement

\* lines 619-637: what every modify transform prints before it acts
ModifyPrints(v) ==
    NodePrints(v)
    \o Say(v > 0, "[INFO]: node is a compatible property modify transform")
    \o Say(v > 0 /\ ModifyProp # <<>>, "[INFO]: modify property found")
    \o Say(v > 0 /\ ModifyProp # <<>>, "[INFO]: modify path")
    \o Say(v > 0 /\ ModifyProp # <<>> /\ Len(modify_expr) >= 2,
           "        modify prop")
    \o Say(v > 0 /\ ModifyProp # <<>> /\ Len(modify_expr) >= 3,
           "        modify repl")

NotImplementedMessage ==
    "[INFO]: property modify operation detected ** currently not implemented **"

\* line 646: the print of the unimplemented property modify; beside it a
\* print made only when verbose
NotImplementedWhenVerbose(v) == Say(v > 0, NotImplementedMessage)

NotImplemented(v) == <<NotImplementedMessage>>

\* lines 692-694: one print for each delprop call property_remove made
RemovePrints(v, t, r) ==
    LET n == Cardinality({o \in Offsets(t) :
                             r.tree[o + 1].props # t[o + 1].props})
              + (IF r.raised THEN 1 ELSE 0)
    IN [i \in 1..(IF v > 0 THEN n ELSE 0) |-> "[INFO]: removing property"]

\* a transform node of no known kind, or one without the property its kind
\* reads: nothing is done
SkipFragment ==
    /\ \/ AtFrag("other") /\ stdout' = stdout \o NodePrints(verbose)
       \/ /\ AtFrag("xform,modify") /\ ModifyProp = <<>>
          /\ stdout' = stdout \o ModifyPrints(verbose)
    /\ xi' = xi + 1
    /\ UNCHANGED <<tree, tree0, modules, node_access, ref_calls, xforms, pc, verbose,
                   target_domain, calls, propname, applied, filterVars,
                   decodeVars, compileVars, findVars, mainVars,
                   scanVars>>

\* lines 633-641: modify_expr[1] or modify_expr[2] of a string with fewer
\* than two ':' raises IndexError
ModifyMalformed ==
    /\ AtFrag("xform,modify")
    /\ ModifyProp # <<>>
    /\ Len(modify_expr) < 3
    /\ pc' = "raise"
    /\ stdout' = stdout \o ModifyPrints(verbose)
    /\ UNCHANGED <<tree, tree0, modules, node_access, ref_calls, xforms, xi, verbose,
                   target_domain, calls, propname, applied, filterVars,
                   decodeVars, compileVars, findVars, mainVars,
                   scanVars>>

\* lines 639-644
ModifyPropertyRemove ==
    /\ AtModify(TRUE, FALSE)
    /\ \E r \in property_remove(tree, modify_expr[1], modify_expr[2], TRUE) :
          /\ tree' = r.tree
          /\ pc' = IF r.raised THEN "raise" ELSE pc
          /\ xi' = IF r.raised THEN xi ELSE xi + 1
          /\ stdout' = stdout
                \o ModifyPrints(verbose)
                \o Say(verbose > 0,
                       "[INFO]: property remove operation detected")
                \o RemovePrints(verbose, tree, r)
          /\ delprops' = delprops \o r.delprops
          /\ stale_reads' = stale_reads + r.stale
    /\ UNCHANGED <<tree0, modules, node_access, ref_calls, xforms, verbose,
                   target_domain, calls, propname, applied, filterVars,
                   decodeVars, compileVars, findVars, mainVars>>

\* lines 645-647
ModifyPropertyReplace ==
    /\ AtModify(TRUE, TRUE)
    /\ xi' = xi + 1
    /\ stdout' = stdout \o ModifyPrints(verbose) \o NotImplemented(verbose)
    /\ UNCHANGED <<tree, tree0, modules, node_access, ref_calls, xforms, pc, verbose,
                   target_domain, calls, propname, applied, filterVars,
                   decodeVars, compileVars, findVars, mainVars,
                   scanVars>>

\* lines 652-661: set_name raises (caught) when the blob has no room for a
\* name that takes more words than the old one; whether it has depends on
\* the free space of the blob
ModifyRename ==
    /\ AtModify(FALSE, TRUE)
    /\ LET tgt_node == node_find(tree, modify_expr[1])
           name == Without(modify_expr[3], "/")
       IN IF tgt_node # 0
          THEN \/ tree' = set_name(tree, tgt_node, name)
               \/ /\ NameWords(name) > NameWords(NodeAt(tree, tgt_node).name)
                  /\ tree' = tree
          ELSE tree' = tree
    /\ xi' = xi + 1
    /\ stdout' = stdout
          \o ModifyPrints(verbose)
          \o Say(verbose > 0 /\ node_find(tree, modify_expr[1]) # 0,
                 "[INFO]: renaming")
    /\ UNCHANGED <<tree0, modules, node_access, ref_calls, xforms, pc, verbose,
                   target_domain, calls, propname, applied, filterVars,
                   decodeVars, compileVars, findVars, mainVars,
                   scanVars>>

\* lines 662-668
ModifyNodeRemove ==
    /\ AtModify(FALSE, FALSE)
    /\ LET node_to_remove == node_find(tree, modify_expr[1])
       IN tree' = IF node_to_remove # 0 THEN node_remove(tree, node_to_remove)
                  ELSE tree
    /\ xi' = xi + 1
    /\ stdout' = stdout
          \o ModifyPrints(verbose)
          \o Say(verbose > 0, "[INFO]: node delete")
          \o Say(verbose > 1 /\ node_find(tree, modify_expr[1]) # 0,
                 "[NOTE]: deleting node")
    /\ UNCHANGED <<tree0, modules, node_access, ref_calls, xforms, pc, verbose,
                   target_domain, calls, propname, applied, filterVars,
                   decodeVars, compileVars, findVars, mainVars,
                   scanVars>>

\* the loop over the transform nodes has ended
TransformEnd ==
    /\ pc = "xforms"
    /\ xi > Len(xforms)
    /\ pc' = "resolve"
    /\ UNCHANGED <<sdtVars, filterVars, decodeVars, compileVars, findVars, mainVars,
                   scanVars>>

(***************************************************************************)
(* SystemDeviceTree.inaccessible_nodes                                     *)
(***************************************************************************)
\* Fdt.get_phandle: the value of a 4-byte phandle property, else 0
get_phandle(n) ==
    IF as_uint32(getprop(n.props, Phandle)).ok
    THEN as_uint32(getprop(n.props, Phandle)).v ELSE PyZero

\* Fdt.node_offset_by_phandle: the first node with that phandle; -1 where
\* it raises (not an int that fits 32 bits, 0 or 0xffffffff, no such node)
node_offset_by_phandle(t, v) ==
    IF \/ v.k # "int"
       \/ Len(v.v) > 2
       \/ v = PyZero
       \/ v = PyInt(<<65535, 65535>>)
       \/ ~\E o \in Offsets(t) : get_phandle(NodeAt(t, o)) = v
    THEN -1
    ELSE CHOOSE o \in Offsets(t) :
             /\ get_phandle(NodeAt(t, o)) = v
             /\ \A q \in 0..(o - 1) : get_phandle(NodeAt(t, q)) # v

\* the property names the walk acts on: the name asked for, when it is
\* "inaccessible" (lines 749-750)
ActsOn(pname, name) == pname = name /\ pname = Inaccessible

Collects(pname, name) == ActsOn(pname, name)

\* lines 742-766: the walk; [list, raised]
RECURSIVE CollectWalk(_, _, _, _)
CollectWalk(t, o, pname, list) ==
    IF o > Len(t) - 1 THEN [list |-> list, raised |-> FALSE]
    ELSE IF \E i \in 1..Len(NodeAt(t, o).props) :
                Collects(pname, NodeAt(t, o).props[i].name)
         THEN LET tgt_node == node_offset_by_phandle(
                                  t, get_prop(NodeAt(t, o).props, pname))
              IN IF tgt_node < 0 THEN [list |-> list, raised |-> TRUE]
                 ELSE CollectWalk(t, o + 1, pname,
                                  IF tgt_node \in Range(list) THEN list
                                  ELSE Append(list, tgt_node))
         ELSE CollectWalk(t, o + 1, pname, list)

\* lines 772-775: node_remove for each collected offset, in order.  An
\* offset collected during the walk (in the tree tw) is still the node's
\* while every deletion so far began after it.  Once a deletion began at or
\* before it (lowest is the first offset of tw that was deleted), it points
\* further into the moved structure block than the node it was taken for:
\* at the begin tag of a node that followed it in tw, which is then the
\* node deleted, or at no begin tag, and get_name raises.
RECURSIVE RemoveList(_, _, _, _)
RemoveList(t, tw, list, lowest) ==
    IF list = <<>> THEN {[tree |-> t, raised |-> FALSE]}
    ELSE LET h == Head(list)
             was(q) == OffsetOf(tw, NodeAt(t, q).id)
             next(q) == RemoveList(node_remove(t, q), tw, Tail(list),
                                   IF was(q) < lowest THEN was(q) ELSE lowest)
         IN IF lowest > h THEN next(CHOOSE q \in Offsets(t) : was(q) = h)
            ELSE {[tree |-> t, raised |-> TRUE]}
                 \cup UNION {next(q) : q \in {x \in Offsets(t) : was(x) > h}}

inaccessible_nodes(t, pname, v) ==
    LET w == CollectWalk(t, 0, pname, <<>>)
    IN IF w.raised THEN {[tree |-> t, raised |-> TRUE]}
       ELSE IF v > 0 /\ w.list # <<>> THEN RemoveList(t, t, w.list, Len(t))
       ELSE {[tree |-> t, raised |-> FALSE]}

\* __main__, line 915 (propname is "no-access" there)
InaccessibleNodes ==
    /\ pc = "resolve"
    /\ \E r \in inaccessible_nodes(tree, propname, verbose) :
          /\ tree' = r.tree
          /\ pc' = IF r.raised THEN "raise" ELSE "write"
    /\ UNCHANGED <<tree0, modules, node_access, ref_calls, xforms, xi, verbose,
                   target_domain, calls, propname, stdout, applied, filterVars,
                   decodeVars, compileVars, findVars, mainVars,
                   scanVars>>

(***************************************************************************)
(* Lopper.filter_node                                                      *)
(*                                                                         *)
(* What executing the test expression does on a node is an outcome: the    *)
(* text it prints and the message of the exception it raises (empty when   *)
(* it raises none).  test_cmd maps the nodes the expression has been       *)
(* executed on to its outcome there.                                       *)
(***************************************************************************)
True ==
    <<"t", "r", "u", "e">>
PrintedTrue ==
    <<"t", "r", "u", "e", "\n">>
PrintedFalse ==
    <<"f", "a", "l", "s", "e", "\n">>
DivisionByZero ==
    <<"d", "i", "v", "i", "s", "i", "o", "n", " ", "b", "y", " ", "z", "e",
      "r", "o">>
NameTrueNotDefined ==
    <<"n", "a", "m", "e", " ", "'", "t", "r", "u", "e", "'", " ", "i", "s",
      " ", "n", "o", "t", " ", "d", "e", "f", "i", "n", "e", "d">>
SomethingWrong ==
    <<"S", "o", "m", "e", "t", "h", "i", "n", "g", " ", "w", "r", "o", "n",
      "g", " ", "w", "i", "t", "h", " ", "t", "h", "e", " ", "c", "o", "d",
      "e", ":", " ">>

Outcome(printed, error) == [printed |-> printed, error |-> error]

\* %%TRUE%%, %%FALSE%%, an expression that fails, one that names true
\* instead of True, and one that prints true and then fails
Outcomes ==
    {Outcome(PrintedTrue, <<>>), Outcome(PrintedFalse, <<>>),
     Outcome(<<>>, DivisionByZero), Outcome(<<>>, NameTrueNotDefined),
     Outcome(PrintedTrue, DivisionByZero)}

\* "true" in text
ContainsTrue(text) ==
    \E i \in 1..(Len(text) - Len(True) + 1) :
        SubSeq(text, i, i + Len(True) - 1) = True

\* lines 184-188: what stdoutIO has captured after exec and its except
Captured(outcome) ==
    outcome.printed
    \o (IF outcome.error = <<>> THEN <<>>
        ELSE SomethingWrong \o outcome.error \o <<"\n">>)

\* line 192
SaysTrue(outcome) == ContainsTrue(Captured(outcome))

\* lines 131-147: the locals handed to exec (the globals hold only
\* __builtins__, bound to None); each name with the object bound to it.
\* SafeDictWithoutHandles is the context of the five utility names alone.
SafeDictWithoutHandles ==
    [k \in {"len", "print", "get_prop", "getphandle", "refcount"} |-> k]

BaseSafeDict ==
    [k \in {"Lopper.get_prop", "Lopper.getphandle", "Lopper.filter_node",
            "Lopper.refcount", "verbose", "print", "len", "get_prop",
            "getphandle", "filter_node", "refcount", "fdt", "sdt"} |->
        CASE k \in {"Lopper.get_prop", "Lopper.getphandle",
                    "Lopper.filter_node", "Lopper.refcount"} -> "None"
          [] k \in {"get_prop", "getphandle", "filter_node", "refcount"} ->
                 "Lopper." \o k
          [] k = "fdt" -> "sdt.FDT"
          [] OTHER -> k]

\* lines 167-169
WithNode(d) ==
    [k \in DOMAIN d \cup {"n", "node", "node_name"} |->
        IF k \in {"n", "node", "node_name"} THEN k ELSE d[k]]

\* node_prefix + n (line 155)
NodeName(prefix, n) == prefix \o n

\* lines 117-151
FilterStart ==
    /\ pc = "filter_node"
    /\ LET prefix == IF node_prefix = <<>> THEN <<"/">> ELSE node_prefix
       IN /\ node_prefix' = prefix
          /\ node_list' = IF path_offset(tree, prefix) < 0 THEN <<>>
                          ELSE get_subnodes(tree, prefix)
    /\ safe_dict' = BaseSafeDict
    /\ pc' = "filter_loop"
    /\ UNCHANGED <<sdtVars, action, test_cmd, evals, decodeVars, compileVars, findVars, mainVars,
                   scanVars>>

\* lines 153-198: one turn of the loop
FilterNode ==
    /\ pc = "filter_loop"
    /\ node_list # <<>>
    /\ LET n == Head(node_list)
           node_name == NodeName(node_prefix, n)
           node == path_offset(tree, node_name)
       IN IF node < 0
          THEN /\ pc' = "raise"
               /\ UNCHANGED <<tree, node_list, test_cmd, evals, safe_dict>>
          ELSE \E outcome \in Outcomes :
               /\ NodeAt(tree, node).id \in DOMAIN test_cmd
                      => outcome = test_cmd[NodeAt(tree, node).id]
               /\ test_cmd' = [i \in DOMAIN test_cmd \cup {NodeAt(tree, node).id}
                                 |-> IF i = NodeAt(tree, node).id THEN outcome
                                     ELSE test_cmd[i]]
               /\ safe_dict' = WithNode(safe_dict)
               /\ evals' = Append(evals, [n |-> n, node_name |-> node_name,
                                          id |-> NodeAt(tree, node).id,
                                          outcome |-> outcome])
               /\ tree' = IF SaysTrue(outcome) /\ action = "delete"
                          THEN del_node(tree, node) ELSE tree
               /\ node_list' = Tail(node_list)
               /\ UNCHANGED pc
    /\ UNCHANGED <<tree0, modules, node_access, ref_calls, xforms, xi, verbose,
                   target_domain, calls, propname, stdout, applied, node_prefix,
                   action, decodeVars, compileVars, findVars, mainVars,
                   scanVars>>

FilterEnd ==
    /\ pc = "filter_loop"
    /\ node_list = <<>>
    /\ pc' = "filtered"
    /\ UNCHANGED <<sdtVars, filterVars, decodeVars, compileVars, findVars, mainVars,
                   scanVars>>

(***************************************************************************)
(* Lopper.decode_property_value, called on its own                         *)
(***************************************************************************)
Decode ==
    /\ pc = "decode"
    /\ IF decode_property_value(property, type) = PyTypeError
       THEN pc' = "raise" /\ val' = val
       ELSE pc' = "decoded" /\ val' = decode_property_value(property, type)
    /\ UNCHANGED <<sdtVars, filterVars, compileVars, findVars, mainVars,
                   scanVars, property, type, values, barray>>

(***************************************************************************)
(* Lopper.encode_byte_array, called on its own and on what the compound    *)
(* decode returned, and the compound decode called on what it returned     *)
(***************************************************************************)
\* int.to_bytes(4, byteorder='big'): OverflowError for an int of more than
\* 32 bits; beside it the bytes in little-endian order
Bytes16(n) == <<n \div 256, n % 256>>
to_bytes_little(v) ==
    CASE Len(v.v) = 0 -> <<0, 0, 0, 0>>
      [] Len(v.v) = 1 -> <<v.v[1] % 256, v.v[1] \div 256, 0, 0>>
      [] OTHER -> <<v.v[2] % 256, v.v[2] \div 256,
                    v.v[1] % 256, v.v[1] \div 256>>

to_bytes(v) ==
    CASE Len(v.v) = 0 -> <<0, 0, 0, 0>>
      [] Len(v.v) = 1 -> <<0, 0>> \o Bytes16(v.v[1])
      [] OTHER -> Bytes16(v.v[1]) \o Bytes16(v.v[2])

Overflows(vs) == \E i \in 1..Len(vs) : Len(vs[i].v) > 2

RECURSIVE encode_byte_array(_)
encode_byte_array(vs) ==
    IF vs = <<>> THEN <<>>
    ELSE to_bytes(Head(vs)) \o encode_byte_array(Tail(vs))

Encode ==
    /\ pc = "encode"
    /\ IF Overflows(values)
       THEN pc' = "overflow" /\ barray' = barray
       ELSE pc' = "encoded" /\ barray' = encode_byte_array(values)
    /\ UNCHANGED <<sdtVars, filterVars, compileVars, findVars, mainVars,
                   scanVars, property, type, val, values>>

DecodeEncoded ==
    /\ pc = "encoded"
    /\ property' = barray
    /\ val' = decode_property_value(barray, type)
    /\ pc' = "decoded_encoded"
    /\ UNCHANGED <<sdtVars, filterVars, compileVars, findVars, mainVars,
                   scanVars, type, values, barray>>

EncodeDecoded ==
    /\ pc = "decoded"
    /\ type = "compound"
    /\ values' = val.v
    /\ barray' = encode_byte_array(val.v)
    /\ pc' = "encoded_decoded"
    /\ UNCHANGED <<sdtVars, filterVars, compileVars, findVars, mainVars,
                   scanVars, property, type, val>>

(***************************************************************************)
(* SystemDeviceTree.node_ref_inc, node_ref and Lopper.refcount             *)
(*                                                                         *)
(* node_access is a function from the paths that have been counted to      *)
(* their counts.  node_ref_inc is called by code outside the engine (a     *)
(* module's process_domain, a test expression through sdt), at any time    *)
(* while the process lives.                                                *)
(***************************************************************************)
\* line 487: self.node_access = {}
NoRefs == [p \in {} |-> 0]

\* lines 542-545; beside it an increment that stores 1 every time
node_ref_inc_stores_one(na, node_name) ==
    IF node_name \in DOMAIN na THEN [na EXCEPT ![node_name] = 1]
    ELSE (node_name :> 1) @@ na

node_ref_inc(na, node_name) ==
    IF node_name \in DOMAIN na THEN [na EXCEPT ![node_name] = @ + 1]
    ELSE (node_name :> 1) @@ na

\* lines 549-552
node_ref(na, node_name) ==
    IF node_name \in DOMAIN na THEN na[node_name] ELSE -1

\* lines 403-404
refcount(na, nodename) == node_ref(na, nodename)

\* the paths node_ref_inc is called with
RefPaths == {<<"/", "a">>, <<"/", "b">>}

\* lines 539-545, one call
NodeRefInc ==
    /\ pc \notin {"raise", "exit"}
    /\ Len(ref_calls) < MaxRefs
    /\ \E node_name \in RefPaths :
          /\ node_access' = node_ref_inc(node_access, node_name)
          /\ ref_calls' = Append(ref_calls, node_name)
    /\ stdout' = stdout \o Say(verbose > 1, "[INFO]: tracking access to node")
    /\ UNCHANGED <<tree, tree0, modules, xforms, xi, pc, verbose,
                   target_domain, calls, propname, applied, filterVars,
                   decodeVars, compileVars, findVars, mainVars,
                   scanVars>>

(***************************************************************************)
(* Lopper.nodes_with_property                                              *)
(***************************************************************************)
\* line 74: propname in prop_list; beside it a test of the last name only
IsLastInPropList(pname, prop_list) ==
    prop_list # <<>> /\ prop_list[Len(prop_list)] = pname

InPropList(pname, prop_list) == pname \in Range(prop_list)

\* lines 64-77, one turn of the loop: the names of the node's properties
\* are collected, the node is appended when propname is among them, and
\* next_node moves on; past the last node the depth is negative and the
\* list is returned
NodesWithProperty ==
    /\ pc = "nodes_with_property"
    /\ LET props == NodeAt(tree, cur_node).props
           prop_list == [i \in 1..Len(props) |-> props[i].name]
       IN ret_nodes' = IF InPropList(propname, prop_list)
                       THEN Append(ret_nodes, cur_node) ELSE ret_nodes
    /\ cur_node' = cur_node + 1
    /\ pc' = IF cur_node + 1 > Len(tree) - 1 THEN "found" ELSE pc
    /\ UNCHANGED <<tree, tree0, modules, node_access, ref_calls, xforms, xi,
                   verbose, target_domain, calls, propname, stdout, applied,
                   filterVars, decodeVars, compileVars, mainVars, scanVars>>

(***************************************************************************)
(* Lopper.dt_compile                                                       *)
(*                                                                         *)
(* Paths are character sequences.  files holds the paths that exist, seen  *)
(* from the working directory.  A tool that is run returns a code the      *)
(* environment chooses; it cannot return 0 when its input file is missing. *)
(***************************************************************************)
\* os.path.basename
Basename(path) ==
    LET slashes == {i \in 1..Len(path) : path[i] = "/"}
    IN IF slashes = {} THEN path
       ELSE SubSeq(path, (CHOOSE i \in slashes : \A j \in slashes : j <= i) + 1,
                   Len(path))

\* line 337: "{0}.pp".format(sdtname)
preprocessed_name(s) == Basename(s) \o <<".", "p", "p">>

\* line 355: "{0}.{1}".format(sdtname, "dtb")
OutputDtb(s) == Basename(s) \o <<".", "d", "t", "b">>

\* line 370: "{0}.pp".format(sdt), the file dtc is told to read
DtcInput(s) == s \o <<".", "p", "p">>

\* the return codes of a tool
ReturnCodes == {0, 1}

\* subprocess.CompletedProcess
CompletedProcess(rc) == [k |-> "CompletedProcess", returncode |-> rc]

\* a is not b, for objects of which b is an int: another object is never it
IsNot(a, b) == a # b

\* one subprocess.run call, as the history records it
Run(prog, forced, infile, outfile, rc) ==
    [prog |-> prog, force |-> forced, includes |-> includes, input |-> infile,
     output |-> outfile, returncode |-> rc]

\* lines 337-347: cpp; check = True raises CalledProcessError on a non-zero
\* code, and a tool that is not found makes .split() raise on None
Preprocess ==
    /\ pc = "compile"
    /\ IF "cpp" \notin which
       THEN /\ pc' = "raise"
            /\ UNCHANGED <<files, runs, stdout>>
       ELSE \E rc \in ReturnCodes :
              /\ sdt \notin files => rc # 0
              /\ runs' = Append(runs, Run("cpp", FALSE, sdt,
                                         preprocessed_name(sdt), rc))
              /\ files' = IF rc = 0 THEN files \cup {preprocessed_name(sdt)}
                          ELSE files
              /\ stdout' = stdout
                           \o Say(verbose > 0, "[INFO]: preprocessing sdt")
              /\ pc' = IF rc = 0 THEN "cpp_done" ELSE "raise"
    /\ UNCHANGED <<tree, tree0, modules, node_access, ref_calls, xforms, xi, verbose,
                   target_domain, calls, propname, applied, filterVars,
                   decodeVars, sdt, includes, which, result, output_dtb,
                   findVars, mainVars, scanVars>>

\* lines 355-374: an output file already on disk is removed, then dtc is
\* run on "<sdt>.pp" with check = False
Compile ==
    /\ pc = "cpp_done"
    /\ LET kept == files \ {OutputDtb(sdt)}
       IN IF "dtc" \notin which
          THEN /\ pc' = "raise"
               /\ files' = kept
               /\ UNCHANGED <<runs, result, stdout>>
          ELSE \E rc \in ReturnCodes :
                 /\ DtcInput(sdt) \notin kept => rc # 0
                 /\ runs' = Append(runs, Run("dtc", FALSE, DtcInput(sdt),
                                            OutputDtb(sdt), rc))
                 /\ result' = CompletedProcess(rc)
                 /\ files' = IF rc = 0 THEN kept \cup {OutputDtb(sdt)}
                             ELSE kept
                 /\ stdout' = stdout
                              \o Say(verbose > 0, "[INFO]: compiling dtb")
                 /\ pc' = "dtc_done"
    /\ UNCHANGED <<tree, tree0, modules, node_access, ref_calls, xforms, xi, verbose,
                   target_domain, calls, propname, applied, filterVars,
                   decodeVars, sdt, includes, which, output_dtb,
                   findVars, mainVars, scanVars>>

\* lines 375-384: `if result is not 0:` compares the CompletedProcess
\* object with 0; inside, dtc is run again with -f added, and a non-zero
\* returncode of that run prints the error and exits with status 1
Recompile ==
    /\ pc = "dtc_done"
    /\ IF IsNot(result, PyZero)
       THEN \E rc \in ReturnCodes :
              /\ DtcInput(sdt) \notin files => rc # 0
              /\ runs' = Append(runs, Run("dtc", TRUE, DtcInput(sdt),
                                         OutputDtb(sdt), rc))
              /\ result' = CompletedProcess(rc)
              /\ files' = IF rc = 0 THEN files \cup {OutputDtb(sdt)}
                          ELSE files
              /\ stdout' = stdout
                    \o Say(verbose > 0, "[INFO]: forcing dtb generation")
                    \o Say(rc # 0, "[ERROR]: unable to (force) compile")
              /\ pc' = IF rc # 0 THEN "exit" ELSE "cleanup"
       ELSE /\ pc' = "cleanup"
            /\ UNCHANGED <<runs, result, files, stdout>>
    /\ UNCHANGED <<tree, tree0, modules, node_access, ref_calls, xforms, xi, verbose,
                   target_domain, calls, propname, applied, filterVars,
                   decodeVars, sdt, includes, which, output_dtb,
                   findVars, mainVars, scanVars>>

\* lines 386-389: os.remove( preprocessed_name ), FileNotFoundError when
\* it is not there; return output_dtb
Cleanup ==
    /\ pc = "cleanup"
    /\ IF preprocessed_name(sdt) \in files
       THEN /\ files' = files \ {preprocessed_name(sdt)}
            /\ output_dtb' = OutputDtb(sdt)
            /\ pc' = "compiled"
       ELSE /\ pc' = "raise"
            /\ UNCHANGED <<files, output_dtb>>
    /\ UNCHANGED <<sdtVars, filterVars, decodeVars, sdt, includes, which,
                   runs, result, findVars, mainVars, scanVars>>

(***************************************************************************)
(* main and the module-level code that runs after it                       *)
(*                                                                         *)
(* wrote is the history of the paths opened for writing by write() and by  *)
(* the dtc run of dump_dtb.  pc "exit" is sys.exit(1), "exit0" is          *)
(* sys.exit(0).                                                            *)
(***************************************************************************)
\* re.search( ".dts*", s ): any character followed by "dt"
SearchDts(s) ==
    \E i \in 2..(Len(s) - 1) : s[i] = "d" /\ s[i + 1] = "t"

\* re.search( ".xyz", s ) for three literal characters: any character
\* followed by them
Search3(x, y, z, s) ==
    \E i \in 2..(Len(s) - 2) : s[i] = x /\ s[i + 1] = y /\ s[i + 2] = z

\* "{0}".format(verbose) for the verbosity levels there are
Str(v) == <<<<"0">>, <<"1">>, <<"2">>, <<"3">>>>[v + 1]

\* lines 865-876: the second positional argument is refused when -o was
\* given too, or when the file exists and -f was not given
SecondArgRefused(o, out, f, fs) == o # <<>> \/ (out \in fs /\ ~f)

\* lines 821-823 and 835-876: what main prints before it exits
MainErrors(nothing, has_out, o, missing) ==
    Say(nothing, "Usage:")
    \o Say(missing, "Error: system device tree does not exist")
    \o Say(~missing /\ has_out /\ o # <<>>,
           "Error: output was already provided via -o")
    \o Say(~missing /\ has_out /\ o # <<>>, "Usage:")
    \o Say(~missing /\ has_out /\ o = <<>>,
           "Error: output file exists, and -f was not passed")

\* lines 803-884 and 886-903: the options set the globals; the first
\* positional argument is the source, which must exist where Path.resolve
\* is strict (Python 3.5) and is not looked at where it is not; the second
\* is the output.  After main, a verbose run prints the summary, -d dumps
\* the source with dtc (dump_dtb is passed verbose as its output name) and
\* exits with 0, and otherwise process_input compiles a source whose name
\* matches ".dts*".  Without a positional argument the global sdt is
\* undefined and the first use raises NameError.
Main ==
    /\ pc = "main"
    /\ verbose' = argv.v
    /\ force' = argv.f
    /\ target_domain' = argv.t
    /\ LET nothing == argv = NoArgv
           has_sdt == Len(argv.args) >= 1
           has_out == Len(argv.args) >= 2
           refused == has_out /\ SecondArgRefused(argv.o, argv.args[2],
                                                  argv.f, files)
           out == IF has_out /\ argv.o = <<>> THEN argv.args[2] ELSE argv.o
           summary == Say(argv.v > 0, "SDT summary:")
       IN \/ /\ nothing \/ refused
             /\ pc' = "exit"
             /\ sdt' = IF has_sdt THEN argv.args[1] ELSE sdt
             /\ output' = out
             /\ stdout' = stdout \o MainErrors(nothing, has_out, argv.o, FALSE)
             /\ UNCHANGED <<wrote, runs, files>>
          \/ /\ has_sdt /\ argv.args[1] \notin files
             /\ pc' = "exit"
             /\ sdt' = argv.args[1]
             /\ output' = argv.o
             /\ stdout' = stdout \o MainErrors(FALSE, has_out, argv.o, TRUE)
             /\ UNCHANGED <<wrote, runs, files>>
          \/ /\ ~nothing /\ ~has_sdt
             /\ pc' = "raise"
             /\ output' = out
             /\ stdout' = stdout \o summary
             /\ UNCHANGED <<sdt, wrote, runs, files>>
          \/ /\ ~refused /\ has_sdt /\ ~argv.d
             /\ pc' = IF SearchDts(argv.args[1]) THEN "compile" ELSE "raise"
             /\ sdt' = argv.args[1]
             /\ output' = out
             /\ stdout' = stdout \o summary
             /\ UNCHANGED <<wrote, runs, files>>
          \/ /\ ~refused /\ has_sdt /\ argv.d /\ "dtc" \notin which
             /\ pc' = "raise"
             /\ sdt' = argv.args[1]
             /\ output' = out
             /\ stdout' = stdout \o summary
             /\ UNCHANGED <<wrote, runs, files>>
          \/ /\ ~refused /\ has_sdt /\ argv.d /\ "dtc" \in which
             /\ pc' = "exit0"
             /\ sdt' = argv.args[1]
             /\ output' = out
             /\ stdout' = stdout \o summary
             /\ \E rc \in ReturnCodes :
                   LET outfilename == IF argv.v > 0 THEN Str(argv.v) ELSE <<>>
                       writes == rc = 0 /\ outfilename # <<>>
                   IN /\ argv.args[1] \notin files => rc # 0
                      /\ runs' = Append(runs, Run("dtc", FALSE, argv.args[1],
                                                 outfilename, rc))
                      /\ wrote' = IF writes THEN Append(wrote, outfilename)
                                  ELSE wrote
                      /\ files' = IF writes THEN files \cup {outfilename}
                                  ELSE files
    /\ UNCHANGED <<tree, tree0, modules, node_access, ref_calls, xforms, xi,
                   calls, propname, applied, filterVars, decodeVars,
                   includes, which, result, output_dtb, findVars, argv,
                   scanVars>>

\* lines 903-909: process_input returns, setup reads the dtb dt_compile
\* returned
Setup ==
    /\ pc = "compiled"
    /\ pc' = IF output_dtb \in files THEN "transform" ELSE "raise"
    /\ stdout' = stdout
          \o Say(verbose > 0,
                 "[INFO]: loading dtb and using libfdt to transform tree")
    /\ UNCHANGED <<tree, tree0, modules, node_access, ref_calls, xforms, xi,
                   verbose, target_domain, calls, propname, applied,
                   filterVars, decodeVars, compileVars, findVars, mainVars,
                   scanVars>>

\* lines 921-940 and SystemDeviceTree.write: the output is written when
\* its name matches ".dtb" or ".dts", with open(..., 'wb') or by dtc -o
WriteOutput ==
    /\ pc = "write"
    /\ pc' = "done"
    /\ LET dtb == Search3("d", "t", "b", output)
           cdo == ~dtb /\ Search3("c", "d", "o", output)
           dts == ~dtb /\ ~cdo /\ Search3("d", "t", "s", output)
       IN /\ wrote' = IF dtb \/ dts THEN Append(wrote, output) ELSE wrote
          /\ files' = IF dtb \/ dts THEN files \cup {output} ELSE files
          /\ runs' = IF dts
                     THEN Append(runs, Run("dtc", FALSE, <<"t", "m", "p">>,
                                           output, 0))
                     ELSE runs
          /\ stdout' = stdout
                \o Say(dtb /\ verbose > 0, "[INFO]: dtb output format detected")
                \o Say(dtb /\ verbose > 0, "[INFO]: writing output dtb")
                \o Say(cdo, "[INFO]: would write a CDO if I knew how")
                \o Say(dts /\ verbose > 0, "[INFO]: dts format detected")
                \o Say(dts /\ verbose > 0, "[INFO]: writing output dtb")
                \o Say(~dtb /\ ~cdo /\ ~dts,
                       "[ERROR]: could not detect output format")
    /\ UNCHANGED <<tree, tree0, modules, node_access, ref_calls, xforms, xi,
                   verbose, target_domain, calls, propname, applied,
                   filterVars, decodeVars, sdt, includes, which, result,
                   output_dtb, findVars, argv, output, force, scanVars>>

(***************************************************************************)
(* Inputs                                                                  *)
(***************************************************************************)
\* the depths of n nodes in pre-order, below a root at depth 0
Shapes(n) ==
    {d \in [1..n -> 1..n] :
        n = 0 \/ (d[1] = 1 /\ \A i \in 2..n : d[i] <= d[i - 1] + 1)}

\* sibling names are unique
WellFormed(t) ==
    \A o \in Offsets(t) :
        \A i, j \in 1..Len(Subnodes(t, o)) :
            i # j => NodeAt(t, Subnodes(t, o)[i]).name
                     # NodeAt(t, Subnodes(t, o)[j]).name

\* the trees of up to `most` nodes below the root, each node one of the
\* templates [name, props], the root with one of the property lists
TreesUpTo(most, templates, rootprops) ==
    {t \in UNION {
        {<<[id |-> 0, depth |-> 0, name |-> <<>>, props |-> rp]>>
         \o [i \in 1..n |-> [id |-> i, depth |-> d[i],
                             name |-> tp[i].name, props |-> tp[i].props]] :
            rp \in rootprops, d \in Shapes(n), tp \in [1..n -> templates]} :
        n \in 0..most} : WellFormed(t)}

TreesOf(templates, rootprops) == TreesUpTo(MaxNodes, templates, rootprops)

Prop(name, payload) == [name |-> name, val |-> payload]
Template(name, props) == [name |-> name, props |-> props]

IdleSdt ==
    /\ modules = <<>>
    /\ node_access = NoRefs
    /\ ref_calls = <<>>
    /\ xforms = <<>>
    /\ xi = 1
    /\ target_domain = <<>>
    /\ calls = <<>>
    /\ propname = NoAccess
    /\ stdout = <<>>
    /\ applied = <<>>
IdleFilter ==
    /\ node_prefix = <<>>
    /\ action = ""
    /\ test_cmd = [i \in {} |-> Outcome(<<>>, <<>>)]
    /\ node_list = <<>>
    /\ evals = <<>>
    /\ safe_dict = <<>>
IdleDecode ==
    /\ property = <<>>
    /\ type = "simple"
    /\ val = PyEmptyStr
    /\ values = <<>>
    /\ barray = <<>>
IdleFind ==
    /\ cur_node = 0
    /\ ret_nodes = <<>>
IdleMain ==
    /\ argv = NoArgv
    /\ output = <<>>
    /\ force = FALSE
    /\ wrote = <<>>
IdleScan ==
    /\ delprops = <<>>
    /\ stale_reads = 0
IdleCompile ==
    /\ sdt = <<>>
    /\ includes = <<>>
    /\ which = {}
    /\ files = {}
    /\ runs = <<>>
    /\ result = PyNone
    /\ output_dtb = <<>>
EmptyTree == <<[id |-> 0, depth |-> 0, name |-> <<>>, props |-> <<>>]>>

(***************************************************************************)
(* The decoder on every payload of up to MaxPayload bytes, and on what     *)
(* getprop returns for a missing property                                  *)
(***************************************************************************)
Payloads == UNION {[1..n -> ByteVals] : n \in 0..MaxPayload}

\* the ints handed to the encoder: 0, 1, 0x10000, 0xffffffff and 2^32
IntVals ==
    {PyZero, PyInt(<<1>>), PyInt(<<1, 0>>), PyInt(<<65535, 65535>>),
     PyInt(<<1, 0, 0>>)}
ValueLists == UNION {[1..n -> IntVals] : n \in 0..MaxValues}

InitDecode ==
    /\ \/ /\ pc = "decode"
          /\ property \in Payloads \cup {NotFoundCode}
          /\ type \in DecodeTypes
          /\ values = <<>>
       \/ /\ pc = "encode"
          /\ property = <<>>
          /\ type = "compound"
          /\ values \in ValueLists
    /\ barray = <<>>
    /\ val = PyEmptyStr
    /\ tree = EmptyTree
    /\ tree0 = tree
    /\ verbose = 0
    /\ IdleSdt
    /\ IdleFilter
    /\ IdleCompile
    /\ IdleFind
    /\ IdleMain
    /\ IdleScan

NextDecode == Decode \/ Encode \/ DecodeEncoded \/ EncodeDecoded

SpecDecode == InitDecode /\ [][NextDecode]_vars

(***************************************************************************)
(* A run of transform() that loads modules and applies domains: up to      *)
(* MaxXforms transform nodes, a tree whose root and one node may carry a   *)
(* compatible string, with and without a starting domain                   *)
(***************************************************************************)
CompatA == <<Prop(Compatible, <<97, 0>>)>>
CompatB == <<Prop(Compatible, <<98, 0>>)>>
PathA == <<"/", "a">>

DomainTemplates ==
    {Template(<<"a">>, <<>>), Template(<<"a">>, CompatA),
     Template(<<"a">>, CompatB)}

DomainFrags ==
    {LoadFrag(TRUE, <<"m", "1", ".", "p", "y">>, TRUE, "ok", "m1"),
     LoadFrag(TRUE, <<"m", "2", ".", "p", "y">>, TRUE, "ok", "m2"),
     LoadFrag(TRUE, <<"m", "3", ".", "p", "y">>, TRUE, "raise", ""),
     LoadFrag(TRUE, <<"m", "3", ".", "p", "y">>, TRUE, "enoent", ""),
     LoadFrag(TRUE, <<>>, TRUE, "ok", "m1"),
     DomainFrag(TRUE, PathA),
     DomainFrag(TRUE, <<"/">>),
     DomainFrag(FALSE, <<>>)}

InitDomain ==
    /\ pc = "transform"
    /\ tree \in TreesUpTo(1, DomainTemplates, {<<>>, CompatA})
    /\ tree0 = tree
    /\ xforms \in UNION {[1..n -> DomainFrags] : n \in 0..MaxXforms}
    /\ xi = 1
    /\ verbose \in 0..MaxVerbose
    /\ target_domain \in {<<>>, PathA}
    /\ modules = <<>>
    /\ node_access = NoRefs
    /\ ref_calls = <<>>
    /\ calls = <<>>
    /\ propname = NoAccess
    /\ stdout = <<>>
    /\ applied = <<>>
    /\ IdleFilter
    /\ IdleCompile
    /\ IdleFind
    /\ IdleMain
    /\ IdleScan
    /\ IdleDecode

NextDomain ==
    \/ TransformStart
    \/ LoadModule
    \/ XformDomain
    \/ TransformEnd

SpecDomain == InitDomain /\ [][NextDomain]_vars

(***************************************************************************)
(* A run of the main flow over one xform,modify node (or none): the        *)
(* transform, then the accessibility resolver as __main__ calls it         *)
(***************************************************************************)
P == <<"p">>
Q == <<"q">>
Cell == <<0, 0, 0, 1>>
PQ == <<Prop(P, Cell), Prop(Q, Cell)>>
QP == <<Prop(Q, Cell), Prop(P, Cell)>>

ModifyTemplates ==
    {Template(<<"a", "@", "1">>, PQ), Template(<<"a", "@", "2">>, QP),
     Template(<<"b">>, PQ)}

ModifyPaths ==
    {<<"/">>, <<"/", "a">>, <<"/", "a", "@", "2">>, <<"/", "a", "/", "b">>,
     <<"/", "c">>}

ModifyFrags ==
    {ModifyFrag(TRUE, path \o rest) :
        path \in ModifyPaths,
        rest \in {<<":", "p", ":">>, <<":", ":">>, <<":", ":", "/", "x", "/">>,
                  <<":", ":", "a", "b", "c", "d">>, <<":", "p", ":", "x">>}}
    \cup {ModifyFrag(TRUE, <<"/", "a", ":", "p">>), ModifyFrag(FALSE, <<>>),
          NoFrag}

\* an unimplemented property modify, and the transform nodes that follow one
ReplaceFrags ==
    {ModifyFrag(TRUE, path \o <<":", "p", ":", "x">>) : path \in ModifyPaths}

TrailingFrags ==
    {ModifyFrag(TRUE, <<"/", "b", ":", ":">>),
     ModifyFrag(TRUE, <<"/", "a", "@", "1", ":", "p", ":">>)}

InitModify ==
    /\ pc = "transform"
    /\ tree \in TreesOf(ModifyTemplates, {<<>>, PQ})
    /\ tree0 = tree
    /\ xforms \in {<<>>} \cup {<<f>> : f \in ModifyFrags}
                     \cup {<<f, g>> : f \in ReplaceFrags, g \in TrailingFrags}
    /\ xi = 1
    /\ verbose \in 0..MaxVerbose
    /\ target_domain = <<>>
    /\ modules = <<>>
    /\ node_access = NoRefs
    /\ ref_calls = <<>>
    /\ calls = <<>>
    /\ propname = NoAccess
    /\ stdout = <<>>
    /\ applied = <<>>
    /\ IdleFilter
    /\ IdleCompile
    /\ IdleFind
    /\ IdleMain
    /\ IdleScan
    /\ IdleDecode

NextModify ==
    \/ TransformStart
    \/ SkipFragment
    \/ ModifyMalformed
    \/ ModifyPropertyRemove
    \/ ModifyPropertyReplace
    \/ ModifyRename
    \/ ModifyNodeRemove
    \/ TransformEnd
    \/ InaccessibleNodes

SpecModify == InitModify /\ [][NextModify]_vars

(***************************************************************************)
(* The accessibility resolver on trees whose nodes carry phandles and      *)
(* references to them                                                      *)
(***************************************************************************)
Cell2 == <<0, 0, 0, 2>>

AccessTemplates ==
    {Template(<<"a">>, <<Prop(Phandle, Cell)>>),
     Template(<<"b">>, <<Prop(Phandle, Cell2)>>),
     Template(<<"c">>, <<Prop(NoAccess, Cell)>>),
     Template(<<"d">>, <<Prop(Inaccessible, Cell)>>),
     Template(<<"e">>, <<Prop(Inaccessible, Cell2)>>)}
AccessRootProps ==
    {<<>>, <<Prop(NoAccess, Cell2)>>, <<Prop(Inaccessible, Cell2)>>}

InitAccess ==
    /\ pc = "resolve"
    /\ tree \in TreesOf(AccessTemplates, AccessRootProps)
    /\ tree0 = tree
    /\ propname \in {NoAccess, Inaccessible}
    /\ verbose \in 0..MaxVerbose
    /\ modules = <<>>
    /\ node_access = NoRefs
    /\ ref_calls = <<>>
    /\ xforms = <<>>
    /\ xi = 1
    /\ target_domain = <<>>
    /\ calls = <<>>
    /\ stdout = <<>>
    /\ applied = <<>>
    /\ IdleFilter
    /\ IdleCompile
    /\ IdleFind
    /\ IdleMain
    /\ IdleScan
    /\ IdleDecode

NextAccess == InaccessibleNodes

SpecAccess == InitAccess /\ [][NextAccess]_vars

(***************************************************************************)
(* Lopper.filter_node called on trees of nodes a, ab and b, with and        *)
(* without a prefix, the prefix with and without a trailing slash          *)
(***************************************************************************)
FilterTemplates ==
    {Template(<<"a">>, <<>>), Template(<<"a", "b">>, <<>>),
     Template(<<"b">>, <<>>)}

FilterPrefixes == {<<>>, <<"/", "a">>, <<"/", "a", "/">>, <<"/", "c">>}

InitFilter ==
    /\ pc = "filter_node"
    /\ tree \in TreesOf(FilterTemplates, {<<>>})
    /\ tree0 = tree
    /\ node_prefix \in FilterPrefixes
    /\ action \in {"delete", "report"}
    /\ test_cmd = [i \in {} |-> Outcome(<<>>, <<>>)]
    /\ node_list = <<>>
    /\ evals = <<>>
    /\ safe_dict = <<>>
    /\ verbose \in 0..MaxVerbose
    /\ IdleSdt
    /\ IdleDecode
    /\ IdleCompile
    /\ IdleFind
    /\ IdleMain
    /\ IdleScan

NextFilter == FilterStart \/ FilterNode \/ FilterEnd

SpecFilter == InitFilter /\ [][NextFilter]_vars

(***************************************************************************)
(* A call of dt_compile: a source in the working directory or in another   *)
(* directory, present or not, include directories, tools found or not,     *)
(* and an output file or a preprocessed file left from an earlier call     *)
(***************************************************************************)
SdtPaths == {<<"s">>, <<"d", "/", "s">>}

InitCompile ==
    /\ pc = "compile"
    /\ sdt \in SdtPaths
    /\ includes \in UNION {[1..n -> {<<"i">>}] : n \in 0..MaxIncludes}
    /\ which \in SUBSET {"cpp", "dtc"}
    /\ files \in SUBSET {sdt, OutputDtb(sdt), DtcInput(sdt)}
    /\ runs = <<>>
    /\ result = PyNone
    /\ output_dtb = <<>>
    /\ verbose \in 0..MaxVerbose
    /\ tree = EmptyTree
    /\ tree0 = tree
    /\ IdleSdt
    /\ IdleFilter
    /\ IdleDecode
    /\ IdleFind
    /\ IdleMain
    /\ IdleScan

NextCompile == Preprocess \/ Compile \/ Recompile \/ Cleanup

SpecCompile == InitCompile /\ [][NextCompile]_vars

(***************************************************************************)
(* node_ref_inc calls made at any time during a run of transform and the   *)
(* resolver, or during a call of filter_node, on a tree of at most one     *)
(* node below the root                                                     *)
(***************************************************************************)
InitRef ==
    /\ tree \in TreesUpTo(1, ModifyTemplates, {<<>>, PQ})
    /\ tree0 = tree
    /\ verbose \in 0..MaxVerbose
    /\ \/ /\ pc = "transform"
          /\ xforms \in {<<>>} \cup {<<f>> : f \in ModifyFrags}
          /\ IdleFilter
       \/ /\ pc = "filter_node"
          /\ xforms = <<>>
          /\ node_prefix \in {<<>>, <<"/", "a">>}
          /\ action \in {"delete", "report"}
          /\ test_cmd = [i \in {} |-> Outcome(<<>>, <<>>)]
          /\ node_list = <<>>
          /\ evals = <<>>
          /\ safe_dict = <<>>
    /\ xi = 1
    /\ target_domain = <<>>
    /\ modules = <<>>
    /\ node_access = NoRefs
    /\ ref_calls = <<>>
    /\ calls = <<>>
    /\ propname = NoAccess
    /\ stdout = <<>>
    /\ applied = <<>>
    /\ IdleDecode
    /\ IdleCompile
    /\ IdleFind
    /\ IdleMain
    /\ IdleScan

NextRef == NodeRefInc \/ NextModify \/ NextFilter

SpecRef == InitRef /\ [][NextRef]_vars

(***************************************************************************)
(* A call of nodes_with_property on trees whose nodes have both, one or    *)
(* none of the properties p and q, for each of three names                 *)
(***************************************************************************)
FindTemplates ==
    {Template(<<"a">>, PQ), Template(<<"b">>, <<Prop(Q, Cell)>>),
     Template(<<"c">>, <<>>)}

InitFind ==
    /\ pc = "nodes_with_property"
    /\ tree \in TreesOf(FindTemplates, {<<>>, PQ})
    /\ tree0 = tree
    /\ propname \in {P, Q, NoAccess}
    /\ cur_node = 0
    /\ ret_nodes = <<>>
    /\ verbose = 0
    /\ modules = <<>>
    /\ node_access = NoRefs
    /\ ref_calls = <<>>
    /\ xforms = <<>>
    /\ xi = 1
    /\ target_domain = <<>>
    /\ calls = <<>>
    /\ stdout = <<>>
    /\ applied = <<>>
    /\ IdleFilter
    /\ IdleDecode
    /\ IdleCompile
    /\ IdleMain
    /\ IdleScan

NextFind == NodesWithProperty

SpecFind == InitFind /\ [][NextFind]_vars

(***************************************************************************)
(* A run of the program from its command line: a source s.dts, an output   *)
(* given with -o, as the second argument, both or not at all, with and     *)
(* without -f, -d and -v, each of the files there or not                   *)
(***************************************************************************)
SDts == <<"s", ".", "d", "t", "s">>
ODtb == <<"o", ".", "d", "t", "b">>
ODts == <<"o", ".", "d", "t", "s">>

InitMain ==
    /\ pc = "main"
    /\ argv \in {Argv(v, f, d, <<>>, o, args) :
                    v \in 0..MaxVerbose, f \in BOOLEAN, d \in BOOLEAN,
                    o \in {<<>>, ODtb},
                    args \in {<<>>, <<SDts>>, <<SDts, ODtb>>, <<SDts, ODts>>}}
    /\ files \in SUBSET {SDts, ODtb, ODts}
    /\ which = {"cpp", "dtc"}
    /\ output = <<>>
    /\ force = FALSE
    /\ wrote = <<>>
    /\ sdt = <<>>
    /\ includes = <<>>
    /\ runs = <<>>
    /\ result = PyNone
    /\ output_dtb = <<>>
    /\ verbose = 0
    /\ tree = EmptyTree
    /\ tree0 = tree
    /\ IdleSdt
    /\ IdleFilter
    /\ IdleDecode
    /\ IdleFind
    /\ IdleScan

NextMain ==
    \/ Main
    \/ Preprocess
    \/ Compile
    \/ Recompile
    \/ Cleanup
    \/ Setup
    \/ TransformStart
    \/ TransformEnd
    \/ InaccessibleNodes
    \/ WriteOutput

SpecMain == InitMain /\ [][NextMain]_vars

(***************************************************************************)
(* Properties                                                              *)
(***************************************************************************)
\* the target of a domain transform node, and its decoded compatible value
DomainTarget == path_offset(tree, Frag.domain)
DomainCompat == get_prop(NodeAt(tree, DomainTarget).props, Compatible)

\* the transform node at hand is a domain node whose path resolves to a
\* node that has a compatible string some registered module accepts
DomainDispatches ==
    /\ AtFrag("xform,domain")
    /\ Frag.has_domain
    /\ DomainTarget >= 0
    /\ DomainCompat.k = "str"
    /\ DomainCompat.v # <<>>
    /\ \E i \in 1..Len(modules) : is_compat(modules[i], DomainCompat)

\* process_domain is called once, on the first registered module that
\* accepts the compatible string, with the path, and on no other module
CalledOnFirstOnly ==
    \E i \in 1..Len(modules) :
        /\ is_compat(modules[i], DomainCompat)
        /\ \A j \in 1..(i - 1) : ~is_compat(modules[j], DomainCompat)
        /\ calls' = Append(calls, [module |-> modules[i],
                                   domain |-> Frag.domain,
                                   verbose |-> verbose])

LoadsModule == AtFrag("load,module") /\ Frag.has_load /\ Frag.has_module

C10_Uint32BigEndian ==
    (pc = "decoded" /\ type = "simple" /\ Len(property) = 4) =>
        LET hi == property[1] * 256 + property[2]
            lo == property[3] * 256 + property[4]
        IN /\ val.k = "int"
           /\ val.v = IF hi # 0 THEN <<hi, lo>>
                      ELSE IF lo # 0 THEN <<lo>> ELSE <<>>

\* the all-zero payload was decoded, to the int 0
C10_Witness ==
    /\ pc = "decoded"
    /\ type = "simple"
    /\ property = <<0, 0, 0, 0>>
    /\ val = PyZero

\* the node a modify node's path resolves to (-1 when it does not)
ModifyTarget == path_offset(tree, modify_expr[1])
LessProp(props, name) == SelectSeq(props, LAMBDA p : p.name # name)

\* C2 (as claimed): a modify node "path:prop:" removes exactly the property
\* prop of the node at path; every other property of that node and every
\* property of every other node, its descendants included, is unchanged.
C2_OnlyThatNode ==
    [][(AtModify(TRUE, FALSE) /\ ModifyTarget >= 0) =>
          /\ Len(tree') = Len(tree)
          /\ \A o \in Offsets(tree) :
                NodeAt(tree', o) =
                    IF o = ModifyTarget
                    THEN [NodeAt(tree, o) EXCEPT
                             !.props = LessProp(@, modify_expr[2])]
                    ELSE NodeAt(tree, o)]_vars

\* C2 (amended): a modify node "path:prop:" removes the property prop of
\* the node at path, and may remove the property of that name from
\* descendants of the node (property_remove is called with recursive set);
\* no other property of any node, no node outside the subtree at path, and
\* no node name or position is changed.
C2_ThatSubtree ==
    [][(AtModify(TRUE, FALSE) /\ ModifyTarget >= 0) =>
          /\ Len(tree') = Len(tree)
          /\ \A o \in Offsets(tree) :
                /\ NodeAt(tree', o).id = NodeAt(tree, o).id
                /\ NodeAt(tree', o).name = NodeAt(tree, o).name
                /\ NodeAt(tree', o).depth = NodeAt(tree, o).depth
                /\ \/ NodeAt(tree', o).props = NodeAt(tree, o).props
                   \/ /\ o \in ModifyTarget..SubtreeEnd(tree, ModifyTarget)
                      /\ NodeAt(tree', o).props
                             = LessProp(NodeAt(tree, o).props, modify_expr[2])
          /\ ~HasProp(NodeAt(tree', ModifyTarget), modify_expr[2])]_vars

\* "/a:p:" took p from the node at /a and from a descendant of it, and a
\* node outside /a still has its p
C2_Witness ==
    /\ pc = "xforms"
    /\ xi = 2
    /\ xforms = <<ModifyFrag(TRUE, <<"/", "a", ":", "p", ":">>)>>
    /\ LET o == path_offset(tree0, <<"/", "a">>)
       IN /\ o > 0
          /\ HasProp(NodeAt(tree0, o), P)
          /\ ~HasProp(NodeAt(tree, o), P)
          /\ \E d \in (o + 1)..SubtreeEnd(tree0, o) :
                HasProp(NodeAt(tree0, d), P) /\ ~HasProp(NodeAt(tree, d), P)
          /\ \E x \in (SubtreeEnd(tree0, o) + 1)..(Len(tree0) - 1) :
                HasProp(NodeAt(tree, x), P)

\* the tree without the subtree at o, and nothing else changed
WithoutSubtree(t, t2, o) ==
    /\ Len(t2) = Len(t) - (SubtreeEnd(t, o) - o + 1)
    /\ \A i \in 1..Len(t2) :
          t2[i] = IF i <= o THEN t[i] ELSE t[i + (SubtreeEnd(t, o) - o + 1)]

\* C3 (as claimed): a modify node "path::", for a path that resolves to a
\* node, removes that node and its whole subtree and nothing else, and
\* node_find(path) returns the not-found sentinel afterwards.
C3_AnyNode ==
    [][(AtModify(FALSE, FALSE) /\ ModifyTarget >= 0) =>
          /\ WithoutSubtree(tree, tree', ModifyTarget)
          /\ node_find(tree', modify_expr[1]) = 0]_vars

\* no component of the path matches a node name only by leaving out the
\* unit address
NamesUnits(t, path) ==
    \A i \in 1..Len(Components(path, <<>>)) : \A o \in Offsets(t) :
        NodenameEq(NodeAt(t, o).name, Components(path, <<>>)[i])
            => NodeAt(t, o).name = Components(path, <<>>)[i]

\* C3 (amended): a modify node "path::", for a path that resolves to a
\* node other than the root, removes that node and its whole subtree and
\* nothing else; node_find(path) returns the not-found sentinel afterwards
\* when no component of the path matches a node only by leaving out its
\* unit address (such a path may resolve to a sibling that is left).  For
\* the root (offset 0, which is also the sentinel) nothing is removed.
C3_SubtreeRemoved ==
    [][(AtModify(FALSE, FALSE) /\ ModifyTarget >= 0) =>
          IF ModifyTarget = 0 THEN tree' = tree
          ELSE /\ WithoutSubtree(tree, tree', ModifyTarget)
               /\ NamesUnits(tree, modify_expr[1])
                      => node_find(tree', modify_expr[1]) = 0]_vars

\* "/a@2::" removed the node a@2 together with a node below it
C3_Witness ==
    /\ pc = "xforms"
    /\ xi = 2
    /\ xforms = <<ModifyFrag(TRUE, <<"/", "a", "@", "2", ":", ":">>)>>
    /\ path_offset(tree0, <<"/", "a", "@", "2">>) > 0
    /\ SubtreeEnd(tree0, path_offset(tree0, <<"/", "a", "@", "2">>))
           > path_offset(tree0, <<"/", "a", "@", "2">>)
    /\ Len(tree) < Len(tree0) - 1
    /\ Len(tree) > 1
    /\ node_find(tree, <<"/", "a", "@", "2">>) = 0

\* the nodes of t that a property pname of some node of t refers to by
\* phandle
Referred(t, pname) ==
    {node_offset_by_phandle(t, get_prop(NodeAt(t, o).props, pname)) :
        o \in {q \in Offsets(t) : HasProp(NodeAt(t, q), pname)}} \ {-1}

\* C1: after inaccessible_nodes("no-access") has run, for every node that
\* carried a no-access property whose value resolves to phandle p, the node
\* with phandle p and its whole subtree are no longer in the tree.
C1_NoAccessTargetsRemoved ==
    (pc = "write" /\ propname = NoAccess) =>
        \A o \in Referred(tree0, NoAccess) :
            SubtreeIds(tree0, o) \cap Ids(tree) = {}

\* the node filter_node was asked to filter below, in the tree it was
\* handed (-1 when the prefix names none)
PrefixNode ==
    path_offset(tree0, IF node_prefix = <<>> THEN <<"/">> ELSE node_prefix)
Below(t, o) == SubtreeIds(t, o) \ {NodeAt(t, o).id}
Evaluated(outcomes) ==
    {evals[i].id : i \in {j \in 1..Len(evals) : evals[j].outcome \in outcomes}}

\* C6: filter_node with action "delete" removes exactly the evaluated
\* nodes whose expression output is "true": every evaluated node whose
\* output is "false" is still in the tree afterwards, and no node outside
\* the prefix is removed.
C6_DeletesExactlyTrue ==
    (pc = "filtered" /\ action = "delete" /\ PrefixNode >= 0) =>
        /\ Ids(tree0) \ Ids(tree)
               = UNION {SubtreeIds(tree0, OffsetOf(tree0, id)) :
                           id \in Evaluated({Outcome(PrintedTrue, <<>>)})}
        /\ Evaluated({Outcome(PrintedFalse, <<>>)}) \subseteq Ids(tree)
        /\ Ids(tree0) \ Ids(tree) \subseteq Below(tree0, PrefixNode)

\* C7: whenever evaluating the test expression for a node raises, the
\* result is treated as false: the node is retained, whatever the error
\* and whatever was printed before it.
C7_ErrorRetainsNode ==
    [][(pc = "filter_loop" /\ Len(evals') = Len(evals) + 1
        /\ evals'[Len(evals')].outcome.error # <<>>) => tree' = tree]_vars

\* C8 (as claimed): filter_node evaluates the test expression once for
\* every descendant of the node at the prefix, in pre-order.
C8_EveryDescendant ==
    (pc = "filtered" /\ action # "delete" /\ PrefixNode >= 0) =>
        /\ Len(evals) = SubtreeEnd(tree0, PrefixNode) - PrefixNode
        /\ \A i \in 1..Len(evals) :
              evals[i].id = NodeAt(tree0, PrefixNode + i).id

\* C8 (amended): filter_node takes the names of the immediate children of
\* the node at the prefix, in child order, and evaluates the test
\* expression at most once per name and for no other name, on the node
\* that prefix + name resolves to: it never descends below the children.
\* When the prefix is empty or ends in "/", every child name is evaluated
\* and the node it is evaluated on is an immediate child.
C8_ImmediateChildren ==
    (pc \in {"filter_loop", "filtered", "raise"} /\ PrefixNode >= 0) =>
        LET children == Subnodes(tree0, PrefixNode)
        IN /\ Len(evals) <= Len(children)
           /\ \A i \in 1..Len(evals) :
                 /\ evals[i].n = NodeAt(tree0, children[i]).name
                 /\ evals[i].node_name = node_prefix \o evals[i].n
           /\ pc = "filtered" => Len(evals) = Len(children)
           /\ node_prefix[Len(node_prefix)] = "/" =>
                 /\ pc # "raise"
                 /\ \A i \in 1..Len(evals) :
                       \E j \in 1..Len(children) :
                           evals[i].id = NodeAt(tree0, children[j]).id

\* the root has a child and a grandchild, and only the child was evaluated
C8_Witness ==
    /\ pc = "filtered"
    /\ node_prefix = <<"/">>
    /\ Len(tree0) = 3
    /\ NodeAt(tree0, 2).depth = 2
    /\ Len(evals) = 1
    /\ evals[1].id = NodeAt(tree0, 1).id

NodeLocals == {"n", "node", "node_name"}

\* C9 (as claimed): the evaluation context exposes only get_prop,
\* getphandle, refcount, len and print plus the locals bound to the
\* current node and its path; no handle on the whole tree or engine.
C9_OnlyFiveNames ==
    (pc = "filter_loop" /\ evals # <<>>) =>
        DOMAIN safe_dict \subseteq
            {"get_prop", "getphandle", "refcount", "len", "print"}
            \cup NodeLocals

\* C9 (amended): the names the evaluation context binds are get_prop,
\* getphandle, refcount, len, print, and also filter_node, verbose, fdt
\* (the whole tree) and sdt (the engine), the four keys "Lopper.get_prop",
\* "Lopper.getphandle", "Lopper.filter_node", "Lopper.refcount" (bound to
\* None), and the locals n, node, node_name of the current node.
C9_BoundNames ==
    (pc = "filter_loop" /\ evals # <<>>) =>
        /\ DOMAIN safe_dict =
               {"get_prop", "getphandle", "refcount", "len", "print",
                "filter_node", "verbose", "fdt", "sdt", "Lopper.get_prop",
                "Lopper.getphandle", "Lopper.filter_node", "Lopper.refcount"}
               \cup NodeLocals
        /\ safe_dict["fdt"] = "sdt.FDT"
        /\ safe_dict["sdt"] = "sdt"
        /\ safe_dict["filter_node"] = "Lopper.filter_node"
        /\ \A k \in {"Lopper.get_prop", "Lopper.getphandle",
                     "Lopper.filter_node", "Lopper.refcount"} :
              safe_dict[k] = "None"

\* an expression has been executed with the context, and another is due
C9_Witness ==
    /\ pc = "filter_loop"
    /\ Len(evals) = 1
    /\ node_list # <<>>
    /\ "node" \in DOMAIN safe_dict

\* the payload ends in a NUL; the NULs before that one
NulTerminated(p) == IsBytes(p) /\ Len(p) > 0 /\ p[Len(p)] = 0
EmbeddedNuls(p) == Cardinality({i \in 1..(Len(p) - 1) : p[i] = 0})

\* the strings, each followed by a NUL
RECURSIVE JoinNul(_)
JoinNul(strs) ==
    IF strs = <<>> THEN <<>>
    ELSE Head(strs).v \o <<0>> \o JoinNul(Tail(strs))

\* val is the list of k + 1 strings that the payload is the NUL-joined,
\* NUL-terminated form of
SplitOnNul(p, v) ==
    /\ v.k = "list"
    /\ Len(v.v) = EmbeddedNuls(p) + 1
    /\ \A i \in 1..Len(v.v) :
          v.v[i].k = "str" /\ \A j \in 1..Len(v.v[i].v) : v.v[i].v[j] # 0
    /\ JoinNul(v.v) = p

\* C11 (as claimed): for every NUL-terminated payload with k >= 1 embedded
\* NULs, the simple decode is the ordered sequence of the k + 1 strings
\* between the NULs, whatever the payload length.
C11_AnyLength ==
    (pc = "decoded" /\ type = "simple" /\ NulTerminated(property)
     /\ EmbeddedNuls(property) >= 1) => SplitOnNul(property, val)

\* C11 (amended): the same for payloads of valid UTF-8 whose length is
\* neither 4 nor 8.  A payload of 4 (8) bytes decodes to the unsigned
\* 32-bit (64-bit) integer first, and one that is not UTF-8 to the empty
\* string.
C11_SplitsOtherLengths ==
    (pc = "decoded" /\ type = "simple" /\ NulTerminated(property)
     /\ EmbeddedNuls(property) >= 1) =>
        CASE Len(property) \in {4, 8} ->
                 val = PyInt(Limbs(property))
          [] ~Utf8Ok(property) -> val = PyEmptyStr
          [] OTHER -> SplitOnNul(property, val)

\* "a\0\0a\0" was decoded to the three strings "a", "", "a"
C11_Witness ==
    /\ pc = "decoded"
    /\ type = "simple"
    /\ property = <<97, 0, 0, 97, 0>>
    /\ val = PyList(<<PyStr(<<97>>), PyEmptyStr, PyStr(<<97>>)>>)

\* a simple-mode rule matched: the payload has 4 or 8 bytes, or all its
\* bytes but the last are valid UTF-8 (the string rules)
SimpleRuleMatches(p) ==
    IsBytes(p) /\ (Len(p) \in {4, 8} \/ Utf8Ok(SubSeq(p, 1, Len(p) - 1)))

\* C12: property decoding never raises, for any payload and for what a
\* lookup of a missing property returns; in simple mode the result is the
\* undecodable value (the empty string) exactly when no rule matches.
C12_NeverRaises ==
    /\ pc # "raise"
    /\ (pc = "decoded" /\ type = "simple") =>
           (val = PyEmptyStr <=> ~SimpleRuleMatches(property))

\* the big-endian value of the four bytes of cell i of the payload, in
\* 16-bit limbs without leading zeros, and its hexadecimal digits
CellValue(p, i) ==
    LET hi == p[4 * i - 3] * 256 + p[4 * i - 2]
        lo == p[4 * i - 1] * 256 + p[4 * i]
    IN IF hi # 0 THEN <<hi, lo>> ELSE IF lo # 0 THEN <<lo>> ELSE <<>>
Nibbles(p, i) ==
    [j \in 1..8 |->
        LET b == p[4 * i - 3 + (j - 1) \div 2]
            d == IF j % 2 = 1 THEN b \div 16 ELSE b % 16
        IN IF d < 10 THEN 48 + d ELSE 97 + (d - 10)]
FirstDigit(ds) ==
    IF \A j \in 1..Len(ds) : ds[j] = 48 THEN Len(ds)
    ELSE CHOOSE j \in 1..Len(ds) :
             ds[j] # 48 /\ \A q \in 1..(j - 1) : ds[q] = 48

\* C13: for every payload of n bytes, the compound decode returns exactly
\* floor(n/4) values, the i-th the big-endian unsigned value of bytes
\* 4i..4i+3: an int in dec format, its hex() string in hex format; the
\* trailing n mod 4 bytes contribute nothing.
C13_CompoundCells ==
    (pc = "decoded" /\ type # "simple") =>
        /\ val.k = "list"
        /\ Len(val.v) = Len(property) \div 4
        /\ \A i \in 1..Len(val.v) :
              IF type = "compound:hex"
              THEN val.v[i] =
                       [k |-> "str",
                        v |-> <<48, 120>>
                              \o SubSeq(Nibbles(property, i),
                                        FirstDigit(Nibbles(property, i)), 8)]
              ELSE val.v[i] = [k |-> "int", v |-> CellValue(property, i)]

\* a payload of one cell and three more bytes was decoded, in hex
C13_Witness ==
    /\ pc = "decoded"
    /\ type = "compound:hex"
    /\ property = <<0, 0, 255, 97, 1, 1, 1>>
    /\ val = PyList(<<PyStr(<<48, 120, 102, 102, 54, 49>>)>>)

\* C14: encode_byte_array inverts the compound decimal decode: for every
\* sequence v of ints in [0, 2^32) the decode of encode_byte_array(v) is v
\* (and the encoding does not fail), and for every payload b whose length
\* is a multiple of 4 encode_byte_array of the decode of b is b.
C14_EncodeInvertsDecode ==
    /\ pc = "decoded_encoded" => val = PyList(values)
    /\ pc = "overflow" => \E i \in 1..Len(values) : Len(values[i].v) > 2
    /\ (pc = "encoded_decoded" /\ Len(property) % 4 = 0) => barray = property

\* 0xffffffff and 0 were encoded, and decoded to the same two ints
C14_Witness ==
    /\ pc = "decoded_encoded"
    /\ values = <<PyInt(<<65535, 65535>>), PyZero>>
    /\ barray = <<255, 255, 255, 255, 0, 0, 0, 0>>
    /\ val = PyList(values)

\* C15: a modify node "path::replacement", for a path that resolves to a
\* node, renames that node to the replacement with every "/" removed; the
\* node keeps its properties, children and position, and no other node is
\* renamed, added or removed.
C15_Renames ==
    [][(AtModify(FALSE, TRUE) /\ ModifyTarget >= 0) =>
          tree' = [tree EXCEPT ![ModifyTarget + 1].name
                                   = Without(modify_expr[3], "/")]]_vars

\* C16: a modify string with a property and a replacement leaves the tree
\* as it is, prints the not-implemented diagnostic whatever the verbosity,
\* and the loop goes on to the next transform node
C16_ReplaceUnsupported ==
    [][AtModify(TRUE, TRUE) =>
          /\ tree' = tree
          /\ pc' = pc
          /\ xi' = xi + 1
          /\ Len(stdout') > Len(stdout)
          /\ SubSeq(stdout', 1, Len(stdout)) = stdout
          /\ stdout'[Len(stdout')] = NotImplementedMessage]_vars

\* a quiet run printed the diagnostic for its first transform node and then
\* deleted /b for its second
C16_Witness ==
    /\ verbose = 0
    /\ Len(xforms) = 2
    /\ xforms[1] \in ReplaceFrags
    /\ xi = 3
    /\ stdout = <<NotImplementedMessage>>
    /\ node_find(tree0, <<"/", "b">>) # 0
    /\ node_find(tree, <<"/", "b">>) = 0

\* C17 (as claimed): when the module a load,module node names cannot be
\* resolved or imported, the failure is printed, no module is registered and
\* the loop goes on to the next transform node
C17_FailureNotFatal ==
    [][(LoadsModule /\ Frag.load # <<>> /\ Frag.import # "ok") =>
          /\ modules' = modules
          /\ Len(stdout') > Len(stdout)
          /\ pc' = pc
          /\ xi' = xi + 1]_vars

\* the transform node at hand is a domain node with a domain property that
\* cannot be dispatched: its target has no compatible string, or no
\* registered module accepts the one it has
DomainUndispatchable ==
    /\ AtFrag("xform,domain")
    /\ Frag.has_domain
    /\ Frag.domain # <<>>
    /\ DomainTarget >= 0
    /\ \/ ~HasProp(NodeAt(tree, DomainTarget), Compatible)
       \/ ~\E i \in 1..Len(modules) : is_compat(modules[i], DomainCompat)

\* C18 (as claimed): a domain node that cannot be dispatched calls no
\* module, leaves the tree as it is, and the loop goes on to the next
\* transform node
C18_NeverStops ==
    [][DomainUndispatchable =>
          /\ calls' = calls
          /\ tree' = tree
          /\ pc' = pc
          /\ xi' = xi + 1]_vars

\* C19: once transform has begun, apply_domain_spec has been called for the
\* starting domain exactly once and before any call made for a transform
\* node when a starting domain was given, and not at all when none was;
\* before transform begins no call has been made
C19_StartingDomainOnce ==
    /\ pc = "transform" => applied = <<>>
    /\ (pc # "transform" /\ target_domain # <<>>) =>
          /\ Len(applied) >= 1
          /\ applied[1] = [tgt_domain |-> target_domain, xi |-> 0]
          /\ \A i \in 2..Len(applied) : applied[i].xi >= 1
    /\ (pc # "transform" /\ target_domain = <<>>) =>
          \A i \in 1..Len(applied) : applied[i].xi >= 1

\* a run given a starting domain applied it, went on, and applied the
\* domain of a transform node after it
C19_Witness ==
    /\ target_domain = PathA
    /\ pc = "xforms"
    /\ Len(applied) = 2
    /\ applied[1].xi = 0
    /\ applied[2].xi >= 1
    /\ xi > applied[2].xi

\* the runs of the compiler dt_compile made so far
DtcRuns == SelectSeq(runs, LAMBDA r : r.prog = "dtc")

\* C20 (as claimed): the compiler is never run more than twice; once the
\* first result has been looked at, it has been run a second time exactly
\* when its first run returned non-zero; and a non-zero code of the second
\* run ends the process with exit status 1
C20_RetryOnlyOnFailure ==
    /\ Len(DtcRuns) <= 2
    /\ pc \in {"cleanup", "compiled", "exit"} =>
          (Len(DtcRuns) = 2 <=> DtcRuns[1].returncode # 0)
    /\ (Len(DtcRuns) = 2 /\ DtcRuns[2].returncode # 0) => pc = "exit"

\* C21 (as claimed): when dt_compile has ended after cpp created the
\* preprocessed file, by returning or by exiting after the forced compile
\* failed, the preprocessed file is no longer on disk
C21_PreprocessedDeleted ==
    pc \in {"compiled", "exit"} => preprocessed_name(sdt) \notin files

\* the number of node_ref_inc calls made so far with the path p
IncCalls(p) == Cardinality({i \in 1..Len(ref_calls) : ref_calls[i] = p})

\* C22: whatever transform, the resolver and filter_node have done in
\* between, node_ref of a path is the number of node_ref_inc calls made with
\* it when there was one, and -1 when there was none; no stored count is
\* below 1, and only paths node_ref_inc was called with are stored
C22_CountsIncCalls ==
    /\ \A p \in RefPaths :
          refcount(node_access, p) = IF IncCalls(p) >= 1 THEN IncCalls(p)
                                     ELSE -1
    /\ \A p \in DOMAIN node_access :
          node_access[p] >= 1 /\ IncCalls(p) >= 1

\* /a was counted twice and /b never, around a transform that changed the
\* tree and a resolver run
C22_Witness ==
    /\ pc = "write"
    /\ tree # tree0
    /\ IncCalls(<<"/", "a">>) = 2
    /\ node_ref(node_access, <<"/", "a">>) = 2
    /\ node_ref(node_access, <<"/", "b">>) = -1

\* C23: the list nodes_with_property returns holds, in ascending offset
\* order (the pre-order of the tree) and each once, the offsets of exactly
\* the nodes, the root among them, that have a property of the name; the
\* tree is never changed
C23_NodesWithProperty ==
    /\ tree = tree0
    /\ pc = "found" =>
          /\ \A i \in 1..(Len(ret_nodes) - 1) : ret_nodes[i] < ret_nodes[i + 1]
          /\ Range(ret_nodes)
                = {o \in 0..(Len(tree) - 1) :
                      \E i \in 1..Len(tree[o + 1].props) :
                          tree[o + 1].props[i].name = propname}

\* the root and a later node were returned, a node in between was not,
\* and the property is not the last one of the root
C23_Witness ==
    /\ pc = "found"
    /\ Len(tree) = 4
    /\ ret_nodes = <<0, 2>>
    /\ propname = P
    /\ tree[1].props = PQ

\* some node has a property of the name the resolver was asked for whose
\* value is the phandle of no node
Unresolvable ==
    \E o \in Offsets(tree) :
        /\ HasProp(NodeAt(tree, o), propname)
        /\ node_offset_by_phandle(
               tree, get_prop(NodeAt(tree, o).props, propname)) = -1

\* C24 (as claimed): a resolver run over a tree with a reference that does
\* not resolve ends normally, not with an exception
C24_UnresolvedSkipped ==
    [][(pc = "resolve" /\ Unresolvable) => pc' = "write"]_vars

\* the output path of the command line: the -o argument, or the second
\* positional argument
OutputArg ==
    IF argv.o # <<>> THEN argv.o
    ELSE IF Len(argv.args) >= 2 THEN argv.args[2] ELSE <<>>

\* C25 (as claimed): a command line without -f whose output file exists
\* makes main exit with status 1, and no step of a run without -f writes
\* its output to a path that exists
C25_NoOverwriteWithoutForce ==
    [][/\ (pc = "main" /\ ~argv.f /\ OutputArg # <<>> /\ OutputArg \in files)
            => pc' = "exit"
       /\ (pc = "write" /\ ~argv.f /\ wrote' # wrote)
            => wrote'[Len(wrote')] \notin files]_vars

\* C26 (as claimed): property_remove never reads at a property offset it
\* took before a deletion, and never calls delprop for a property the node
\* does not have
C26_ScanRestarts ==
    /\ stale_reads = 0
    /\ \A i \in 1..Len(delprops) : delprops[i].has

\* the nodes the walk of the resolver collects: those a property of the
\* requested name refers to, when the walk acts on that name
Collected ==
    IF Collects(propname, propname) THEN Referred(tree0, propname) ELSE {}

\* C27 (as claimed): when the walk collected one or more nodes, the tree
\* after the resolver has run is the tree before it less the subtrees of
\* the collected nodes
C27_CollectedRemoved ==
    (pc = "write" /\ Collected # {}) =>
        Ids(tree) = Ids(tree0)
                      \ UNION {SubtreeIds(tree0, o) : o \in Collected}

\* C28 (as claimed): a modify node whose path names no node of the tree
\* leaves the tree as it was, whichever of the three forms it has, and the
\* transform goes on with the next node
C28_UnresolvedPathNoChange ==
    [][(/\ AtFrag("xform,modify")
        /\ ModifyProp # <<>>
        /\ Len(modify_expr) >= 3
        /\ ModifyTarget < 0) =>
           (tree' = tree /\ pc' = pc /\ xi' = xi + 1)]_vars

\* the domain the step at hand applies a specification to: the starting
\* domain, or the one a domain node names (empty when the step applies none)
DomainAtHand ==
    IF pc = "transform" THEN target_domain
    ELSE IF AtFrag("xform,domain") /\ Frag.has_domain THEN Frag.domain
    ELSE <<>>

\* the modules called and the domains they were called for
Invocations(log) ==
    [i \in 1..Len(log) |-> [module |-> log[i].module, domain |-> log[i].domain]]

\* C29 (as claimed): verbosity changes what is printed and nothing else:
\* at any verbosity a step that applies a domain specification calls the
\* module, and ends the run or not, as it does at verbosity 0, and the
\* resolver leaves the tree, and ends, as it does at verbosity 0
C29_VerbosityOnlyDiagnostics ==
    [][/\ DomainAtHand # <<>> =>
             LET quiet == apply_domain_spec(tree, modules, 0, DomainAtHand)
             IN /\ (pc' = "exit") = quiet.exit
                /\ Invocations(calls') =
                      Invocations(Invoke(calls, quiet.module, DomainAtHand, 0))
                /\ tree' = tree
       /\ pc = "resolve" =>
             \E r \in inaccessible_nodes(tree, propname, 0) :
                /\ tree' = r.tree
                /\ pc' = IF r.raised THEN "raise" ELSE "write"]_vars

====
